---- MODULE Spec2Model ----
(***************************************************************************)
(* Model of the monitoring engine of sato: the status store                *)
(* (core/status_tracker.py), the notification engine                       *)
(* (core/notifications.py) and the check scheduler (sato.py).              *)
(*                                                                         *)
(* Time is the integer number of seconds time.time() returns.  A Python    *)
(* float that is not a timestamp (uptime_percentage,                       *)
(* average_response_time) is an exact rational <<n, d>> in lowest terms.   *)
(* A critical section `with self._lock:` is one atomic step; everything    *)
(* the code does outside a lock is a step of its own.                      *)
(***************************************************************************)
EXTENDS Integers, Sequences, FiniteSets, TLC

VARIABLES
    now,            \* time.time()
    pc,             \* position of every thread
    frame,          \* local variables of every thread
    calls,          \* number of API calls started so far (bounds the run)
    locks,          \* StatusTracker._lock and NotificationManager.notification_lock:
                    \* who holds it and the `with` statement that acquired it
    \* ---- StatusTracker (core/status_tracker.py)
    recent_events,  \* self.recent_events, deque(maxlen=1000)
    response_times, \* self.response_times, server -> deque(maxlen=100)
    uptime_stats,   \* self.uptime_stats, server -> UptimeStats
    history_file,   \* content of self.history_file, or Absent
    fresh,          \* a StatusTracker constructed later on the same file
    cold_start,     \* the tracker was constructed without persisted history
    completed,      \* server -> number of record_status calls that returned
    persisted,      \* the last operation that completed was a successful save
    snap_truth,     \* uptime stats at the moment the last written snapshot was copied
    held,           \* every value a read accessor has returned to its caller
    reading,        \* the iteration of get_status_changes over the event buffer
    read_errors,    \* the exceptions read accessors have raised
    downtime,       \* the last calculate_downtime call: its arguments, the event
                    \* buffer and the clock it saw, and what it returned
    \* ---- NotificationManager (core/notifications.py)
    settings,                 \* self.settings
    cooldown_period,          \* self.cooldown_period
    last_notifications,       \* self.last_notifications, key -> time
    pending_notifications,    \* self.pending_notifications
    batch_timer,              \* self.batch_timer: index into timers, 0 for None
    timers,                   \* every threading.Timer created so far
    last_meaningful_status,   \* self.last_meaningful_status
    status_change_history,    \* self.status_change_history
    last_notification_time,   \* self.last_notification_time
    npc,                      \* position of every thread calling the manager
    nframe,                   \* arguments and locals of its current or last call
    ncalls,                   \* number of calls of the manager started so far
    outcomes,                 \* the decision of every status-change call, in order
    answers,                  \* every answer of should_notify, in order
    flushes,                  \* every non-empty flush of the pending buffer, in order
    \* ---- SatoMonitoringSystem (sato.py)
    server_status,            \* self.server_status, target -> status
    spc,                      \* position of the check thread of every target
    result,                   \* the CheckResult every check thread holds
    cycle,                    \* number of scheduler cycles started
    started,                  \* check threads started in the current cycle
    sato_change_history,      \* self.status_change_history of the monitoring system
    acknowledged_alerts,      \* self.acknowledged_alerts, name -> time
    pending_alerts,           \* self.pending_alerts, alert key -> group
    alert_timers,             \* GLib timeouts scheduled for send_grouped_alert
    alert_groups,             \* self.alert_groups
    detected,                 \* every status change process_check_result detected
    submitted,                \* every call of notify_status_change by the scheduler
    \* ---- HealthChecker (core/health_checker.py)
    probe,                    \* the target of a check_server call and what its I/O does
    answer,                   \* what the call gave its caller
    \* ---- SatoMonitoringSystem: the batch monitor thread (sato.py 819-880)
    monitoring_active,        \* self.monitoring_active
    docker_services,          \* the names of the servers of type docker_service
    hosts,                    \* server name -> ServerConfig.host
    batch_pc,                 \* where the batch thread is: "idle", "enumerating"
                              \* (in batch_docker_checks) or the name of the context
                              \* in which it processes a Docker result
    docker_results,           \* docker_results.items() not processed yet
    caught,                   \* the except clauses that have caught an exception
    check_starts,             \* server name -> the times its checks were started
    \* ---- SatoMonitoringSystem: self-healing (sato.py 1153-1427)
    maintenance_mode,         \* self.maintenance_mode
    retry_counts,             \* server name -> restart attempts that have failed
    failure_timestamps,       \* server name -> times of its failures in the last hour
    healing_actions,          \* server name -> the last healing action
    restart_threads,          \* the restart_after_delay threads that are sleeping
    check_interval,           \* server name -> ServerConfig.check_interval
    reset_threads,            \* the reset_frequency threads that are sleeping
    attempts,                 \* every decision to attempt a restart
    restarts,                 \* every restart command that has been executed
    since_success,            \* server name -> restart commands executed for it
                              \* since its last successful restart or recovery
    recoveries,               \* server name -> its returns to operational so far
    failed_after,             \* server name -> a restart attempt scheduled after
                              \* its last return to operational has failed
    \* ---- PerformanceOptimizer (core/performance_optimizer.py)
    check_cache,              \* self.check_cache, cache key -> (result, time)
    last_cleanup,             \* self.last_cleanup
    cache_pc,                 \* the _cached_health_check call of every worker
    probe_log,                \* every check_server call made for a request
    cache_answers,            \* what every request was answered with
    tuned_servers,            \* the ServerConfig objects given to
                              \* optimize_check_intervals: check_interval and
                              \* _consecutive_success (has_counter: it is set)
    optimize_calls,           \* the optimize_check_intervals calls made
    \* ---- SatoMonitoringSystem.on_destroy (sato.py 2030-2051)
    destroy_pc,               \* where on_destroy is: "", "saving", "saved", "quit"
    in_flight                 \* server name -> the ordinal, among the events of the
                              \* server, of the event of the check that was in
                              \* flight when on_destroy began; 0 when none was

reader_vars == <<held, reading, read_errors, downtime>>

tracker_vars == <<recent_events, response_times, uptime_stats, history_file,
                  fresh, cold_start, completed, persisted, snap_truth, reader_vars>>

notifier_state == <<settings, cooldown_period, last_notifications,
                    pending_notifications, batch_timer, timers, last_meaningful_status,
                    status_change_history, last_notification_time>>

notifier_vars == <<notifier_state, npc, nframe, ncalls, outcomes, answers, flushes>>

sched_vars == <<server_status, spc, result, cycle, started, sato_change_history,
                acknowledged_alerts, pending_alerts, alert_timers, alert_groups,
                detected, submitted>>

checker_vars == <<probe, answer>>

tuning_vars == <<tuned_servers, optimize_calls>>

optimizer_vars ==
    <<check_cache, last_cleanup, cache_pc, probe_log, cache_answers, tuning_vars>>

exit_vars == <<destroy_pc, in_flight>>

loop_vars ==
    <<monitoring_active, docker_services, hosts, batch_pc, docker_results, caught,
      check_starts>>

heal_vars ==
    <<maintenance_mode, retry_counts, failure_timestamps, healing_actions,
      restart_threads, check_interval, reset_threads, attempts, restarts,
      since_success, recoveries, failed_after>>

outside_tracker ==
    <<notifier_vars, sched_vars, checker_vars, optimizer_vars, exit_vars, loop_vars,
      heal_vars>>

outside_notifier ==
    <<pc, frame, calls, locks, tracker_vars, sched_vars, checker_vars, optimizer_vars, exit_vars,
      loop_vars, heal_vars>>

outside_sched == <<notifier_vars, checker_vars, optimizer_vars, exit_vars, heal_vars>>

vars ==
    <<now, pc, frame, calls, locks, tracker_vars, notifier_vars, sched_vars, checker_vars,
      optimizer_vars, exit_vars,
      loop_vars, heal_vars>>

-----------------------------------------------------------------------------
(* Bounds of the model *)

MaxCalls == 3

MaxNotify == 2

StartTime == 5000000

(* Program constants *)

EventsMaxLen == 1000

ResponseMaxLen == 100

SaveEvery == 10

RetentionDays == 30

NotificationCooldown == 60

BatchDelay == 5

DefaultCooldown == 300

FlapWindow == 600

FlapThreshold == 3

NamesShown == 3

Servers == {"api", "db"}

\* the (status, response_time) pairs record_status is called with
RecordInputs == {<<"operational", 120>>, <<"down", 0>>}

Workers == {"w1", "w2"}

\* the check threads and the thread of the GTK main loop
Threads == Workers \cup {"main"}

EmptyMap == [s \in {} |-> 0]

\* no history file on disk
Absent == [exists |-> FALSE, json |-> "", events |-> <<>>, uptime_stats |-> EmptyMap,
           response_times |-> EmptyMap]

NotLoaded == [loaded |-> FALSE, stats |-> EmptyMap, after_save |-> FALSE,
              saved |-> EmptyMap, events |-> <<>>, response_times |-> EmptyMap,
              raised |-> "", complete |-> FALSE]

NotWritten == [written |-> FALSE, stats |-> EmptyMap]

NoDowntime == [server |-> "", hours |-> 0, at |-> 0, events |-> <<>>, minutes |-> <<0, 1>>]

NotReading == [active |-> FALSE, server |-> "", cutoff |-> 0, deque |-> <<>>,
               same |-> FALSE, mutated |-> FALSE]

RetentionSecs == RetentionDays * 24 * 3600

TrackerTicks == {RetentionSecs + 1}

TrackerHorizon == StartTime + RetentionSecs + 1

-----------------------------------------------------------------------------
(* Python floats as exact rationals *)

RECURSIVE GCD(_, _)
GCD(a, b) == IF b = 0 THEN a ELSE GCD(b, a % b)

Rat(n, d) == LET g == GCD(n, d) IN <<n \div g, d \div g>>

Zero == <<0, 1>>

RatPlus(a, b) == Rat(a[1] * b[2] + b[1] * a[2], a[2] * b[2])

-----------------------------------------------------------------------------
(* deque(maxlen=n).append *)

\* a list: nothing is evicted
ListAppend(q, x, maxlen) == Append(q, x)

DequeAppend(q, x, maxlen) ==
    LET a == Append(q, x)
    IN IF Len(a) > maxlen THEN Tail(a) ELSE a

RECURSIVE DequeFrom(_, _)
DequeFrom(items, maxlen) ==
    IF Len(items) > maxlen THEN DequeFrom(Tail(items), maxlen) ELSE items

-----------------------------------------------------------------------------
(* StatusTracker.update_uptime_stats *)

NewStats(server_name, status, timestamp) ==
    [server_name |-> server_name, total_checks |-> 0, successful_checks |-> 0,
     failed_checks |-> 0, average_response_time |-> Zero,
     uptime_percentage |-> Zero, last_check |-> timestamp, last_status |-> status]

\* a degraded check counted as a success
IsSuccessUnlessDown(status) == status \in {"operational", "degraded"}

IsSuccess(status) == status = "operational"

\* the increment of total_checks moved into the `not in` branch
update_uptime_stats_once(all, server_name, status, response_time, timestamp) ==
    LET before == IF server_name \in DOMAIN all
                  THEN all[server_name]
                  ELSE NewStats(server_name, status, timestamp)
        total == IF server_name \in DOMAIN all THEN before.total_checks ELSE 1
        succ  == before.successful_checks + (IF IsSuccess(status) THEN 1 ELSE 0)
        fail  == before.failed_checks + (IF IsSuccess(status) THEN 0 ELSE 1)
        after == [before EXCEPT !.total_checks = total,
                                !.last_check = timestamp,
                                !.last_status = status,
                                !.successful_checks = succ,
                                !.failed_checks = fail,
                                !.uptime_percentage = Rat(succ * 100, total)]
    IN (server_name :> after) @@ all

update_uptime_stats(all, server_name, status, response_time, timestamp) ==
    LET before == IF server_name \in DOMAIN all
                  THEN all[server_name]
                  ELSE NewStats(server_name, status, timestamp)
        total == before.total_checks + 1
        succ  == before.successful_checks + (IF IsSuccess(status) THEN 1 ELSE 0)
        fail  == before.failed_checks + (IF IsSuccess(status) THEN 0 ELSE 1)
        avg   == IF status = "operational" /\ response_time > 0
                 THEN Rat(before.average_response_time[1] * (succ - 1)
                             + response_time * before.average_response_time[2],
                          before.average_response_time[2] * succ)
                 ELSE before.average_response_time
        after == [before EXCEPT !.total_checks = total,
                                !.last_check = timestamp,
                                !.last_status = status,
                                !.successful_checks = succ,
                                !.failed_checks = fail,
                                !.uptime_percentage = Rat(succ * 100, total),
                                !.average_response_time = avg]
    IN (server_name :> after) @@ all

-----------------------------------------------------------------------------
(* StatusTracker.cleanup_old_events *)

\* a filter that drops the entry whose timestamp is the cutoff itself
CleanEventsNewer(events, t) ==
    LET Keep(e) == e.timestamp > t - RetentionSecs
    IN DequeFrom(SelectSeq(events, Keep), EventsMaxLen)

CleanEvents(events, t) ==
    LET Keep(e) == e.timestamp >= t - RetentionSecs
    IN DequeFrom(SelectSeq(events, Keep), EventsMaxLen)

CleanTimes(times, t) ==
    LET Keep(p) == p[1] >= t - RetentionSecs
    IN [s \in DOMAIN times |-> DequeFrom(SelectSeq(times[s], Keep), ResponseMaxLen)]

-----------------------------------------------------------------------------
(* JSON documents: json.dump writes a Python int as an integer token, a     *)
(* float as a token with a fraction, a str as a string; json.load reads     *)
(* them back by the kind of the token.                                      *)

JInt(n) == [t |-> "int", v |-> n]

JReal(q) == [t |-> "real", v |-> q]

JStr(s) == [t |-> "str", v |-> s]

JTime(ts) == JReal(<<ts, 1>>)

PyNumber(j) == j.v

PyTime(j) == j.v[1]

\* the percentage rounded down before it is written
StatsToDictRounded(st) ==
    [server_name |-> JStr(st.server_name),
     total_checks |-> JInt(st.total_checks),
     successful_checks |-> JInt(st.successful_checks),
     failed_checks |-> JInt(st.failed_checks),
     average_response_time |-> JReal(st.average_response_time),
     uptime_percentage |-> JReal(<<st.uptime_percentage[1] \div st.uptime_percentage[2], 1>>),
     last_check |-> JTime(st.last_check),
     last_status |-> JStr(st.last_status)]

StatsToDict(st) ==
    [server_name |-> JStr(st.server_name),
     total_checks |-> JInt(st.total_checks),
     successful_checks |-> JInt(st.successful_checks),
     failed_checks |-> JInt(st.failed_checks),
     average_response_time |-> JReal(st.average_response_time),
     uptime_percentage |-> JReal(st.uptime_percentage),
     last_check |-> JTime(st.last_check),
     last_status |-> JStr(st.last_status)]

StatsFromDict(d) ==
    [server_name |-> d.server_name.v,
     total_checks |-> PyNumber(d.total_checks),
     successful_checks |-> PyNumber(d.successful_checks),
     failed_checks |-> PyNumber(d.failed_checks),
     average_response_time |-> PyNumber(d.average_response_time),
     uptime_percentage |-> PyNumber(d.uptime_percentage),
     last_check |-> PyTime(d.last_check),
     last_status |-> d.last_status.v]

EventToDict(e) ==
    [timestamp |-> JTime(e.timestamp), server_name |-> JStr(e.server_name),
     status |-> JStr(e.status), response_time |-> JInt(e.response_time)]

EventFromDict(d) ==
    [timestamp |-> PyTime(d.timestamp), server_name |-> d.server_name.v,
     status |-> d.status.v, response_time |-> PyNumber(d.response_time)]

TimesToJson(times) ==
    [s \in DOMAIN times |->
        [i \in 1..Len(times[s]) |-> <<JTime(times[s][i][1]), JInt(times[s][i][2])>>]]

TimesFromJson(j) ==
    [s \in DOMAIN j |->
        DequeFrom([i \in 1..Len(j[s]) |-> <<PyTime(j[s][i][1]), PyNumber(j[s][i][2])>>],
                  ResponseMaxLen)]

(* The JSON document save_history writes, and what load_history makes of it *)

HistoryDoc(events, stats, times) ==
    [exists |-> TRUE, json |-> "object",
     events |-> [i \in 1..Len(events) |-> EventToDict(events[i])],
     uptime_stats |-> [s \in DOMAIN stats |-> StatsToDict(stats[s])],
     response_times |-> TimesToJson(times)]

\* a key the dict read from the file does not have
JMissing == [t |-> "missing", v |-> 0]

\* StatusEvent(**event_data) and UptimeStats(**stats_data) raise TypeError when a
\* field has no key
GoodDict(d) == \A k \in DOMAIN d : d[k].t # "missing"

\* (t[0], t[1]) raises IndexError on a list of fewer than 2 items
GoodPair(t) == Len(t) >= 2

GoodPairs(times) == \A i \in DOMAIN times : GoodPair(times[i])

\* the number of items in front of the first one that is not good
PrefixLen(items, Good(_)) ==
    LET bad == {i \in DOMAIN items : ~Good(items[i])}
    IN IF bad = {} THEN Len(items)
       ELSE (CHOOSE i \in bad : \A k \in bad : i <= k) - 1

\* the order in which the file lists the names of a section
FileOrder == <<"api", "db">>

\* the names of a section that are read before an item raises
NamesRead(section, Good(_)) ==
    LET Listed(name) == name \in DOMAIN section
        names == SelectSeq(FileOrder, Listed)
        n == PrefixLen([i \in DOMAIN names |-> section[names[i]]], Good)
    IN [names |-> {names[i] : i \in 1..n}, complete |-> n = Len(names)]

\* the classes an exception is an instance of (Python's class hierarchy)
Ancestors(cls) ==
    CASE cls = "HTTPError" -> {"HTTPError", "URLError", "OSError", "Exception"}
      [] cls = "URLError" -> {"URLError", "OSError", "Exception"}
      [] cls = "socket.timeout" -> {"socket.timeout", "OSError", "Exception"}
      [] cls = "socket.gaierror" -> {"socket.gaierror", "OSError", "Exception"}
      [] cls = "ConnectionResetError" ->
             {"ConnectionResetError", "ConnectionError", "OSError", "Exception"}
      [] cls = "FileNotFoundError" -> {"FileNotFoundError", "OSError", "Exception"}
      [] cls = "OSError" -> {"OSError", "Exception"}
      [] cls = "TimeoutExpired" -> {"TimeoutExpired", "SubprocessError", "Exception"}
      [] cls = "ValueError" -> {"ValueError", "Exception"}
      [] OTHER -> {cls, "Exception"}

\* the body of the first clause that catches the exception, "" when none does
Caught(clauses, cls) ==
    LET matching == {i \in DOMAIN clauses : clauses[i].catches \cap Ancestors(cls) # {}}
    IN  IF matching = {} THEN ""
        ELSE clauses[CHOOSE i \in matching : \A j \in matching : i <= j].body

\* the except clause of load_history, line 261
LoadExcept == <<[catches |-> {"Exception"}, body |-> "print"]>>

\* load_history, lines 237-262: the sections are read one after the other into
\* the store; an exception ends the reading and is caught at line 261
load_history(file) ==
    IF ~file.exists
    THEN [recent_events |-> <<>>, uptime_stats |-> EmptyMap, response_times |-> EmptyMap,
          error |-> "", complete |-> TRUE]
    ELSE IF file.json # "object"
    THEN [recent_events |-> <<>>, uptime_stats |-> EmptyMap, response_times |-> EmptyMap,
          error |-> "JSONDecodeError", complete |-> FALSE]
    ELSE LET n == PrefixLen(file.events, GoodDict)
             events_read == n = Len(file.events)
             stats == NamesRead(file.uptime_stats, GoodDict)
             stats_read == events_read /\ stats.complete
             times == NamesRead(file.response_times, GoodPairs)
         IN [recent_events |->
                 DequeFrom([i \in 1..n |-> EventFromDict(file.events[i])], EventsMaxLen),
             uptime_stats |->
                 IF events_read
                 THEN [s \in stats.names |-> StatsFromDict(file.uptime_stats[s])]
                 ELSE EmptyMap,
             response_times |->
                 IF stats_read
                 THEN TimesFromJson([s \in times.names |-> file.response_times[s]])
                 ELSE EmptyMap,
             error |-> IF ~events_read \/ ~stats.complete THEN "TypeError"
                       ELSE IF ~times.complete THEN "IndexError" ELSE "",
             complete |-> stats_read /\ times.complete]

(* A history file left by an earlier run: SaveEvery - 1 successful checks of "api" *)

PriorCount == SaveEvery - 1

PriorEvents ==
    [i \in 1..PriorCount |->
        [timestamp |-> StartTime - SaveEvery + i, server_name |-> "api",
         status |-> "operational", response_time |-> 120]]

RECURSIVE Replay(_, _)
Replay(events, n) ==
    IF n = 0 THEN EmptyMap
    ELSE update_uptime_stats(Replay(events, n - 1), events[n].server_name,
                             events[n].status, events[n].response_time,
                             events[n].timestamp)

PriorFile ==
    HistoryDoc(PriorEvents, Replay(PriorEvents, PriorCount),
               ("api" :> [i \in 1..PriorCount |-> <<PriorEvents[i].timestamp, 120>>]))

-----------------------------------------------------------------------------
(* Threads *)

EmptyFrame ==
    [server |-> "", status |-> "", rt |-> 0, ts |-> 0, should_save |-> FALSE,
     caller |-> "", events_copy |-> <<>>, keys_copy |-> {}, times_copy |-> EmptyMap,
     truth |-> EmptyMap, data |-> Absent]

(* A history file left by a long run: n successful checks of "api", of which   *)
(* save_history wrote the events and the last 100 response times              *)

LongEvents(n) ==
    [i \in 1..n |->
        [timestamp |-> StartTime - n - 1 + i, server_name |-> "api",
         status |-> "operational", response_time |-> 120]]

LongStats(n) ==
    "api" :> [server_name |-> "api", total_checks |-> n, successful_checks |-> n,
              failed_checks |-> 0, average_response_time |-> <<120, 1>>,
              uptime_percentage |-> <<100, 1>>, last_check |-> StartTime - 1,
              last_status |-> "operational"]

LongFile(n) ==
    LET events == LongEvents(n)
        first == IF n > ResponseMaxLen THEN n - ResponseMaxLen + 1 ELSE 1
        times == [i \in 1..(n - first + 1) |-> <<events[first + i - 1].timestamp, 120>>]
    IN HistoryDoc(events, LongStats(n), ("api" :> times))

InitTrackerOn(files) ==
    /\ history_file \in files
    /\ cold_start = ~history_file.exists
    /\ recent_events = load_history(history_file).recent_events
    /\ uptime_stats = load_history(history_file).uptime_stats
    /\ response_times = load_history(history_file).response_times
    /\ fresh = NotLoaded
    /\ completed = [s \in Servers |-> 0]
    /\ persisted = FALSE
    /\ snap_truth = NotWritten
    /\ held = <<>>
    /\ reading = NotReading
    /\ read_errors = <<>>
    /\ downtime = NoDowntime

InitTracker == InitTrackerOn({Absent, PriorFile})

\* who holds a lock: a thread or the thread of a threading.Timer
NoOwner == [thread |-> "", timer |-> 0]

\* threading.Lock() (status_tracker.py 62, notifications.py 34): not held
FreeLock == [owner |-> NoOwner, site |-> ""]

InitThreads ==
    /\ now = StartTime
    /\ pc = [th \in Threads |-> "idle"]
    /\ frame = [th \in Threads |-> EmptyFrame]
    /\ calls = 0
    /\ locks = [store |-> FreeLock, notification |-> FreeLock]

-----------------------------------------------------------------------------
(* StatusTracker.record_status *)

\* lines 70-78: the timestamp is taken and the event built before the lock
RecordStatusCall(th, server_name, status, response_time) ==
    /\ pc[th] = "idle"
    /\ calls' = calls + 1
    /\ UNCHANGED locks
    /\ frame' = [frame EXCEPT ![th] = [EmptyFrame EXCEPT !.server = server_name,
                     !.status = status, !.rt = response_time, !.ts = now,
                     !.caller = "record"]]
    /\ pc' = [pc EXCEPT ![th] = "rs_lock"]
    /\ UNCHANGED <<now, tracker_vars>>

\* a call by any client of the tracker
RecordStatus(th, server_name, status, response_time) ==
    /\ calls < MaxCalls
    /\ RecordStatusCall(th, server_name, status, response_time)
    /\ UNCHANGED outside_tracker

ShouldSave(events) == Len(events) % SaveEvery = 0

\* lines 82-94: `with self._lock:`
RecordLocked(th) ==
    /\ pc[th] = "rs_lock"
    /\ LET f == frame[th]
           event == [timestamp |-> f.ts, server_name |-> f.server,
                     status |-> f.status, response_time |-> f.rt]
           events == DequeAppend(recent_events, event, EventsMaxLen)
           old_times == IF f.server \in DOMAIN response_times
                        THEN response_times[f.server] ELSE <<>>
       IN /\ recent_events' = events
          /\ response_times' =
                IF f.rt > 0
                THEN (f.server :> DequeAppend(old_times, <<f.ts, f.rt>>, ResponseMaxLen))
                         @@ response_times
                ELSE response_times
          /\ uptime_stats' = update_uptime_stats(uptime_stats, f.server, f.status, f.rt, f.ts)
          /\ frame' = [frame EXCEPT ![th].should_save = ShouldSave(events)]
    /\ reading' = IF reading.active /\ reading.same
                  THEN [reading EXCEPT !.mutated = TRUE]
                  ELSE reading
    /\ pc' = [pc EXCEPT ![th] = "rs_unlocked"]
    /\ UNCHANGED <<outside_tracker, now, calls, locks, history_file, fresh, cold_start, completed, persisted,
                   snap_truth, held, read_errors, downtime>>

\* lines 97-98: the periodic save, outside the lock
RecordSave(th) ==
    /\ pc[th] = "rs_unlocked"
    /\ frame[th].should_save
    /\ pc' = [pc EXCEPT ![th] = "sv_lock"]
    /\ UNCHANGED <<outside_tracker, now, frame, calls, locks, tracker_vars>>

RecordReturn(th) ==
    /\ \/ pc[th] = "rs_unlocked" /\ ~frame[th].should_save
       \/ pc[th] = "rs_saved"
    /\ completed' = [completed EXCEPT ![frame[th].server] = @ + 1]
    /\ persisted' = FALSE
    /\ pc' = [pc EXCEPT ![th] = "idle"]
    /\ frame' = [frame EXCEPT ![th] = EmptyFrame]
    /\ UNCHANGED <<outside_tracker, now, calls, locks, recent_events, response_times, uptime_stats,
                   history_file, fresh, cold_start, snap_truth, reader_vars>>

-----------------------------------------------------------------------------
(* StatusTracker.save_history *)

\* a direct call: on_destroy (sato.py:2045), the tests
SaveHistory(th) ==
    /\ pc[th] = "idle"
    /\ calls < MaxCalls
    /\ calls' = calls + 1
    /\ UNCHANGED locks
    /\ frame' = [frame EXCEPT ![th] = [EmptyFrame EXCEPT !.caller = "save"]]
    /\ pc' = [pc EXCEPT ![th] = "sv_lock"]
    /\ UNCHANGED <<outside_tracker, now, tracker_vars>>

\* lines 267-276: `with self._lock:` cleanup_old_events, then the copies.
\* dict(self.uptime_stats) copies the keys; the UptimeStats objects stay shared.
SaveLocked(th) ==
    /\ pc[th] = "sv_lock"
    /\ recent_events' = CleanEvents(recent_events, now)
    /\ response_times' = CleanTimes(response_times, now)
    /\ frame' = [frame EXCEPT ![th].events_copy = recent_events',
                              ![th].keys_copy = DOMAIN uptime_stats,
                              ![th].times_copy = response_times',
                              ![th].truth = uptime_stats]
    /\ reading' = [reading EXCEPT !.same = FALSE]
    /\ pc' = [pc EXCEPT ![th] = "sv_build"]
    /\ UNCHANGED <<outside_tracker, now, calls, locks, uptime_stats, history_file, fresh, cold_start,
                   completed, persisted, snap_truth, held, read_errors, downtime>>

\* cleanup_old_events called on its own, lines 292-311
CleanupOldEvents(th) ==
    /\ pc[th] = "idle"
    /\ recent_events' = CleanEvents(recent_events, now)
    /\ response_times' = CleanTimes(response_times, now)
    /\ reading' = [reading EXCEPT !.same = FALSE]
    /\ UNCHANGED <<outside_tracker, now, pc, frame, calls, locks, uptime_stats, history_file,
                   fresh, cold_start, completed, persisted, snap_truth, held, read_errors,
                   downtime>>

\* the objects stats.to_dict() reads at line 282 for the names copied at line 273
SharedStats(keys) == [s \in keys |-> uptime_stats[s]]

\* lines 279-285: the document is built outside the lock
SaveBuild(th) ==
    /\ pc[th] = "sv_build"
    /\ frame' = [frame EXCEPT ![th].data =
                    HistoryDoc(frame[th].events_copy, SharedStats(frame[th].keys_copy),
                               frame[th].times_copy)]
    /\ pc' = [pc EXCEPT ![th] = "sv_write"]
    /\ UNCHANGED <<outside_tracker, now, calls, locks, tracker_vars>>

\* lines 287-290: the file is written, or the write fails and is logged
SaveWrite(th, ok) ==
    /\ pc[th] = "sv_write"
    /\ history_file' = IF ok THEN frame[th].data ELSE history_file
    /\ snap_truth' = IF ok THEN [written |-> TRUE, stats |-> frame[th].truth]
                            ELSE snap_truth
    /\ persisted' = ok
    /\ IF frame[th].caller = "record"
       THEN /\ pc' = [pc EXCEPT ![th] = "rs_saved"]
            /\ frame' = [frame EXCEPT ![th] = [EmptyFrame EXCEPT
                            !.server = frame[th].server, !.caller = "record"]]
       ELSE /\ pc' = [pc EXCEPT ![th] = "idle"]
            /\ frame' = [frame EXCEPT ![th] = EmptyFrame]
    /\ UNCHANGED <<outside_tracker, now, calls, locks, recent_events, response_times, uptime_stats, fresh,
                   cold_start, completed, reader_vars>>

\* StatusTracker(history_file): a new instance on the same file (lines 48-64)
Construct ==
    /\ ~fresh.loaded
    /\ LET store == load_history(history_file)
       IN fresh' = [loaded |-> TRUE, stats |-> store.uptime_stats,
                    after_save |-> (persisted /\ \A th \in DOMAIN pc : pc[th] = "idle"),
                    saved |-> uptime_stats,
                    events |-> store.recent_events,
                    response_times |-> store.response_times,
                    raised |-> IF store.error # "" /\ Caught(LoadExcept, store.error) = ""
                               THEN store.error ELSE "",
                    complete |-> store.complete]
    /\ UNCHANGED <<outside_tracker, now, pc, frame, calls, locks, recent_events, response_times, uptime_stats,
                   history_file, cold_start, completed, persisted, snap_truth, reader_vars>>

\* a new instance on the file the tracker has written
Reload ==
    /\ history_file.exists
    /\ Construct

-----------------------------------------------------------------------------
(* The read accessors of the StatusTracker, called by a thread of their own. *)
(* A value that is an object of the store (an UptimeStats that               *)
(* update_uptime_stats changes in place) is held by reference: what the      *)
(* caller holds is what the store holds.                                     *)

MaxReads == 2

EventsLimit == 50             \* get_recent_events(limit=50)

HistoryHours == 24            \* hours=24

\* list.sort / sorted are stable: an item goes behind the items of the same key
RECURSIVE InsertedAsc(_)
InsertedAsc(keyed) ==
    IF keyed = <<>> THEN <<>>
    ELSE LET x == keyed[Len(keyed)]
             sorted == InsertedAsc(SubSeq(keyed, 1, Len(keyed) - 1))
             at == Cardinality({i \in DOMAIN sorted : sorted[i].key <= x.key})
         IN SubSeq(sorted, 1, at) \o <<x>> \o SubSeq(sorted, at + 1, Len(sorted))

RECURSIVE InsertedDesc(_)
InsertedDesc(keyed) ==
    IF keyed = <<>> THEN <<>>
    ELSE LET x == keyed[Len(keyed)]
             sorted == InsertedDesc(SubSeq(keyed, 1, Len(keyed) - 1))
             at == Cardinality({i \in DOMAIN sorted : sorted[i].key >= x.key})
         IN SubSeq(sorted, 1, at) \o <<x>> \o SubSeq(sorted, at + 1, Len(sorted))

Items(keyed) == [i \in DOMAIN keyed |-> keyed[i].item]

\* sorted(..., key=lambda x: x.timestamp), with reverse=True for newest first
EventsByTime(events, reverse) ==
    LET keyed == [i \in DOMAIN events |-> [key |-> events[i].timestamp, item |-> events[i]]]
    IN Items(IF reverse THEN InsertedDesc(keyed) ELSE InsertedAsc(keyed))

\* sorted(history, key=lambda x: x[0])
PairsByTime(pairs) ==
    Items(InsertedAsc([i \in DOMAIN pairs |-> [key |-> pairs[i][1], item |-> pairs[i]]]))

ReadsLeft == Len(held) + Len(read_errors) + (IF reading.active THEN 1 ELSE 0) < MaxReads

Returned(accessor, server_name, live, value) ==
    /\ held' = Append(held, [accessor |-> accessor, server |-> server_name,
                             live |-> live, value |-> value])

ReaderUnchanged ==
    UNCHANGED <<outside_tracker, now, pc, frame, calls, locks, recent_events, response_times,
                uptime_stats, history_file, fresh, cold_start, completed, persisted,
                snap_truth, downtime>>

\* get_uptime_stats, lines 179-181: the UptimeStats of the store, or None
GetUptimeStats(server_name) ==
    /\ ReadsLeft
    /\ IF server_name \in DOMAIN uptime_stats
       THEN Returned("get_uptime_stats", server_name, TRUE, uptime_stats[server_name])
       ELSE Returned("get_uptime_stats", server_name, FALSE, "None")
    /\ ReaderUnchanged /\ UNCHANGED <<reading, read_errors>>

\* get_all_uptime_stats, lines 183-185: a new dict of the same UptimeStats
GetAllUptimeStats ==
    /\ ReadsLeft
    /\ Returned("get_all_uptime_stats", "", TRUE, uptime_stats)
    /\ ReaderUnchanged /\ UNCHANGED <<reading, read_errors>>

\* get_recent_events, lines 138-150; "" stands for server_name=None
GetRecentEvents(server_name) ==
    /\ ReadsLeft
    /\ LET Wanted(e) == server_name = "" \/ e.server_name = server_name
           events == EventsByTime(SelectSeq(recent_events, Wanted), TRUE)
       IN Returned("get_recent_events", server_name, FALSE,
                   SubSeq(events, 1, IF Len(events) < EventsLimit THEN Len(events)
                                     ELSE EventsLimit))
    /\ ReaderUnchanged /\ UNCHANGED <<reading, read_errors>>

\* get_response_time_history, lines 152-166: the copy is taken under the lock
GetResponseTimeHistory(server_name) ==
    /\ ReadsLeft
    /\ LET cutoff_time == now - HistoryHours * 3600
           Recent(p) == p[1] >= cutoff_time
           history == IF server_name \in DOMAIN response_times
                      THEN SelectSeq(response_times[server_name], Recent)
                      ELSE <<>>
       IN Returned("get_response_time_history", server_name, FALSE,
                   PairsByTime(history))
    /\ ReaderUnchanged /\ UNCHANGED <<reading, read_errors>>

\* get_status_changes, lines 191-197: the comprehension starts to iterate over
\* self.recent_events itself, without the lock
GetStatusChanges(server_name) ==
    /\ ReadsLeft
    /\ reading' = [active |-> TRUE, server |-> server_name,
                   cutoff |-> now - HistoryHours * 3600, deque |-> recent_events,
                   same |-> TRUE, mutated |-> FALSE]
    /\ ReaderUnchanged /\ UNCHANGED <<held, read_errors>>

RECURSIVE Changes(_, _)
Changes(events, last_status) ==
    IF events = <<>> THEN <<>>
    ELSE IF Head(events).status # last_status
    THEN <<Head(events)>> \o Changes(Tail(events), Head(events).status)
    ELSE Changes(Tail(events), last_status)

\* lines 193-208: the iterator of a deque that was appended to since the
\* iteration began raises RuntimeError; otherwise the changes are returned
StatusChangesEnd ==
    /\ reading.active
    /\ reading' = NotReading
    /\ IF reading.mutated
       THEN /\ read_errors' = Append(read_errors, "RuntimeError")
            /\ UNCHANGED held
       ELSE /\ LET Wanted(e) == /\ e.server_name = reading.server
                                /\ e.timestamp >= reading.cutoff
                   events == SelectSeq(reading.deque, Wanted)
               IN Returned("get_status_changes", reading.server, FALSE,
                           Changes(EventsByTime(events, FALSE), "None"))
            /\ UNCHANGED read_errors
    /\ ReaderUnchanged

\* get_status_changes, lines 191-208, on a buffer nobody appends to meanwhile
get_status_changes(events, server_name, hours, current_time) ==
    LET cutoff_time == current_time - hours * 3600
        Wanted(e) == e.server_name = server_name /\ e.timestamp >= cutoff_time
    IN Changes(EventsByTime(SelectSeq(events, Wanted), FALSE), "None")

NoDownStart == -1

\* the loop of lines 225-230: down_start and downtime_minutes after the changes
RECURSIVE DowntimeLoop(_, _, _)
DowntimeLoop(status_changes, down_start, downtime_minutes) ==
    IF status_changes = <<>>
    THEN [down_start |-> down_start, downtime_minutes |-> downtime_minutes]
    ELSE LET event == Head(status_changes)
         IN IF event.status \in {"down", "degraded"} /\ down_start = NoDownStart
            THEN DowntimeLoop(Tail(status_changes), event.timestamp, downtime_minutes)
            ELSE IF event.status = "operational" /\ down_start # NoDownStart
            THEN DowntimeLoop(Tail(status_changes), NoDownStart,
                              RatPlus(downtime_minutes,
                                      Rat(event.timestamp - down_start, 60)))
            ELSE DowntimeLoop(Tail(status_changes), down_start, downtime_minutes)

\* the periods that have ended only: a target still down adds nothing
ClosedDowntime(events, server_name, hours, current_time) ==
    DowntimeLoop(get_status_changes(events, server_name, hours, current_time),
                 NoDownStart, Zero).downtime_minutes

\* calculate_downtime, lines 210-235
calculate_downtime(events, server_name, hours, current_time) ==
    LET status_changes == get_status_changes(events, server_name, hours, current_time)
        after == DowntimeLoop(status_changes, NoDownStart, Zero)
    IN IF status_changes = <<>> THEN Zero
       ELSE IF after.down_start # NoDownStart
       THEN RatPlus(after.downtime_minutes, Rat(current_time - after.down_start, 60))
       ELSE after.downtime_minutes

\* a call by the thread that also records, between two of its calls
CalculateDowntime(th, server_name, hours) ==
    /\ pc[th] = "idle"
    /\ ~reading.active
    /\ downtime' = [server |-> server_name, hours |-> hours, at |-> now,
                    events |-> recent_events,
                    minutes |-> calculate_downtime(recent_events, server_name, hours, now)]
    /\ UNCHANGED <<held, reading, read_errors>>
    /\ UNCHANGED <<outside_tracker, now, pc, frame, calls, locks, recent_events, response_times,
                   uptime_stats, history_file, fresh, cold_start, completed, persisted,
                   snap_truth>>

Tick(d, horizon) ==
    /\ now + d <= horizon
    /\ now' = now + d
    /\ UNCHANGED <<pc, frame, calls, locks, tracker_vars, notifier_vars, sched_vars,
                   checker_vars, optimizer_vars, exit_vars, loop_vars, heal_vars>>

-----------------------------------------------------------------------------
(* HealthChecker.check_server                                               *)
(*                                                                          *)
(* A call is described by its probe: the target's check type, whether the   *)
(* target has a custom command, what the underlying I/O (urlopen,           *)
(* subprocess.run, connect_ex) does, and the time it took.  The I/O either  *)
(* returns a code or raises an exception of some class with some text.      *)
(* For a target with expected_content the probe also says what reading the   *)
(* first 200 bytes of the body gives: the content is found in them, is       *)
(* missing from them, or the read raises.                                    *)

CheckTimeout == 4             \* batch_monitor calls check_server with timeout=4

ExpectedStatusCodes == {200, 201, 202, 204, 301, 302, 304, 401}

CheckTypes == {"http", "ping", "tcp", "custom", "grpc"}

ElapsedMs == {12, 450, 2900}

Returns(code) == [kind |-> "returns", cls |-> "", code |-> code, text |-> ""]

Raises(cls, code, text) == [kind |-> "raises", cls |-> cls, code |-> code, text |-> text]

NoIO == [kind |-> "none", cls |-> "", code |-> 0, text |-> ""]

\* what the I/O of each kind of check can do
Outcomes(check_type) ==
    CASE check_type = "http" ->
             {Returns(200), Returns(204),
              Raises("HTTPError", 404, "HTTP Error 404: Not Found"),
              Raises("HTTPError", 401, "HTTP Error 401: Unauthorized"),
              Raises("HTTPError", 500, "HTTP Error 500: Internal Server Error"),
              Raises("URLError", 0, "<urlopen error timed out>"),
              Raises("URLError", 0, "<urlopen error [Errno 111] Connection refused>"),
              Raises("URLError", 0, "<urlopen error [Errno -2] Name or service not known>"),
              Raises("URLError", 0, "<urlopen error [Errno 101] Network is unreachable>"),
              Raises("socket.timeout", 0, "The read operation timed out"),
              Raises("ConnectionResetError", 0, "[Errno 104] Connection reset by peer"),
              Raises("ValueError", 0, "unknown url type: 'api'")}
      [] check_type = "ping" ->
             {Returns(0), Returns(1), Returns(2),
              Raises("TimeoutExpired", 0, "Command timed out after 5 seconds"),
              Raises("FileNotFoundError", 0, "[Errno 2] No such file or directory: 'ping'")}
      [] check_type = "tcp" ->
             {Returns(0), Returns(111), Returns(11),
              Raises("socket.gaierror", 0, "[Errno -2] Name or service not known"),
              Raises("socket.timeout", 0, "timed out"),
              Raises("OSError", 0, "[Errno 24] Too many open files")}
      [] check_type = "custom" ->
             {Returns(0), Returns(1),
              Raises("TimeoutExpired", 0, "Command timed out after 4 seconds"),
              Raises("FileNotFoundError", 0, "[Errno 2] No such file or directory: 'probe.sh'"),
              Raises("ValueError", 0, "embedded null byte")}
      [] OTHER -> {NoIO}

\* "": the target has no expected_content
Contents == {"", "found", "missing", "unreadable"}

Probes ==
    {[check_type |-> t, custom_command |-> c, io |-> o, elapsed |-> e, content |-> b] :
        t \in CheckTypes, c \in {"", "probe.sh"}, o \in UNION {Outcomes(u) : u \in CheckTypes},
        e \in ElapsedMs, b \in Contents}

\* the probes of calls that can happen: the I/O is the one of the check type,
\* and a custom check without a command does no I/O
PossibleProbes ==
    {p \in Probes :
        /\ p.io \in Outcomes(p.check_type)
        /\ (p.check_type # "http") => (p.content = "")
        /\ (p.check_type # "custom") => (p.custom_command = "")
        /\ (p.check_type = "custom" /\ p.custom_command = "") => (p.io = Returns(0))}

NoProbe ==
    [check_type |-> "", custom_command |-> "", io |-> NoIO, elapsed |-> 0, content |-> ""]

\* CheckResult; status_code None is -1
CheckResult(is_healthy, response_time, message, status_code) ==
    [state |-> "result", cls |-> "", is_healthy |-> is_healthy,
     response_time |-> response_time, message |-> message, status_code |-> status_code]

\* the call did not return: the exception reached the caller
Raised(cls) ==
    [state |-> "raised", cls |-> cls, is_healthy |-> FALSE, response_time |-> 0,
     message |-> "", status_code |-> -1]

NoAnswer ==
    [state |-> "none", cls |-> "", is_healthy |-> FALSE, response_time |-> 0,
     message |-> "", status_code |-> -1]

InitChecker == probe = NoProbe /\ answer = NoAnswer

\* the words check_http looks for in str(e).lower()
Needles(text) ==
    CASE text = "<urlopen error timed out>" -> {}
      [] text = "<urlopen error [Errno 111] Connection refused>" -> {"connection"}
      [] text = "<urlopen error [Errno -2] Name or service not known>" ->
             {"name or service not known"}
      [] text = "[Errno 104] Connection reset by peer" -> {"connection"}
      [] OTHER -> {}

NetworkMessage(e) ==
    IF "socket.timeout" \in Ancestors(e.cls) \/ "timeout" \in Needles(e.text)
    THEN "Timeout"
    ELSE IF "connection" \in Needles(e.text) THEN "Connection failed"
    ELSE IF \/ "name resolution" \in Needles(e.text)
            \/ "name or service not known" \in Needles(e.text) THEN "DNS failed"
    ELSE "Network error"

\* the except clauses of each check function, in the order they are written:
\* the classes a clause catches and the name of its body
ExceptClausesSpecific(check_type) ==
    CASE check_type = "http" ->
             <<[catches |-> {"HTTPError"}, body |-> "http_error"],
               [catches |-> {"URLError", "socket.timeout", "OSError"}, body |-> "network"]>>
      [] check_type = "ping" -> <<[catches |-> {"TimeoutExpired"}, body |-> "timeout"]>>
      [] check_type = "tcp" -> <<[catches |-> {"socket.timeout"}, body |-> "timeout"]>>
      [] check_type = "custom" -> <<[catches |-> {"TimeoutExpired"}, body |-> "timeout"]>>
      [] OTHER -> <<>>

ExceptClauses(check_type) ==
    CASE check_type \in {"http", "ping", "tcp", "custom"} ->
             ExceptClausesSpecific(check_type)
                 \o <<[catches |-> {"Exception"}, body |-> "generic"]>>
      [] OTHER -> <<>>

\* the sign U+2713 of the message of line 124
CheckMark == "(U+2713)"

\* lines 107-141: the response of urlopen
HttpResponse(p) ==
    LET status_code == p.io.code
        in_expected == status_code \in ExpectedStatusCodes
        http == "HTTP " \o ToString(status_code)
    IN CASE p.content = "" -> CheckResult(in_expected, p.elapsed, http, status_code)
         [] p.content = "missing" ->
                CheckResult(FALSE, p.elapsed, "Content missing (" \o http \o ")",
                            status_code)
         [] p.content = "found" ->
                CheckResult(in_expected, p.elapsed, http \o " " \o CheckMark, status_code)
         [] OTHER ->
                CheckResult(in_expected, p.elapsed, http \o " (content unreadable)",
                            status_code)

check_http(p) ==
    IF p.io.kind = "returns"
    THEN HttpResponse(p)
    ELSE LET body == Caught(ExceptClauses("http"), p.io.cls)
         IN  CASE body = "http_error" ->
                      CheckResult(p.io.code \in ExpectedStatusCodes, p.elapsed,
                                  "HTTP " \o ToString(p.io.code), p.io.code)
               [] body = "network" ->
                      CheckResult(FALSE, p.elapsed, NetworkMessage(p.io), -1)
               [] body = "generic" -> CheckResult(FALSE, p.elapsed, "Check failed", -1)
               [] OTHER -> Raised(p.io.cls)

check_ping(p) ==
    IF p.io.kind = "returns"
    THEN IF p.io.code = 0
         THEN CheckResult(TRUE, p.elapsed,
                          "Ping successful (" \o ToString(p.elapsed) \o "ms)", -1)
         ELSE CheckResult(FALSE, p.elapsed, "Ping failed: Host unreachable", -1)
    ELSE LET body == Caught(ExceptClauses("ping"), p.io.cls)
         IN  CASE body = "timeout" ->
                      CheckResult(FALSE, CheckTimeout * 1000,
                                  "Ping timeout after " \o ToString(CheckTimeout) \o "s", -1)
               [] body = "generic" ->
                      CheckResult(FALSE, p.elapsed, "Ping check failed: " \o p.io.text, -1)
               [] OTHER -> Raised(p.io.cls)

check_tcp(p) ==
    IF p.io.kind = "returns"
    THEN IF p.io.code = 0
         THEN CheckResult(TRUE, p.elapsed, "TCP connection successful", -1)
         ELSE CheckResult(FALSE, p.elapsed,
                          "TCP connection failed (error " \o ToString(p.io.code) \o ")", -1)
    ELSE LET body == Caught(ExceptClauses("tcp"), p.io.cls)
         IN  CASE body = "timeout" ->
                      CheckResult(FALSE, CheckTimeout * 1000, "TCP connection timeout", -1)
               [] body = "generic" ->
                      CheckResult(FALSE, p.elapsed, "TCP check failed: " \o p.io.text, -1)
               [] OTHER -> Raised(p.io.cls)

check_custom(p) ==
    IF p.custom_command = ""
    THEN CheckResult(FALSE, 0, "No custom command specified", -1)
    ELSE IF p.io.kind = "returns"
    THEN IF p.io.code = 0
         THEN CheckResult(TRUE, p.elapsed, "Custom check passed", -1)
         ELSE CheckResult(FALSE, p.elapsed,
                          "Custom check failed (exit " \o ToString(p.io.code) \o ")", -1)
    ELSE LET body == Caught(ExceptClauses("custom"), p.io.cls)
         IN  CASE body = "timeout" ->
                      CheckResult(FALSE, CheckTimeout * 1000,
                                  "Custom check timeout after " \o ToString(CheckTimeout)
                                      \o "s", -1)
               [] body = "generic" ->
                      CheckResult(FALSE, p.elapsed, "Custom check error: " \o p.io.text, -1)
               [] OTHER -> Raised(p.io.cls)

check_server(p) ==
    CASE p.check_type = "http" -> check_http(p)
      [] p.check_type = "ping" -> check_ping(p)
      [] p.check_type = "tcp" -> check_tcp(p)
      [] p.check_type = "custom" -> check_custom(p)
      [] OTHER -> CheckResult(FALSE, 0, "Unknown check type: " \o p.check_type, -1)

\* a caller calls check_server and gets its answer
CheckServer ==
    /\ probe # NoProbe
    /\ answer = NoAnswer
    /\ answer' = check_server(probe)
    /\ UNCHANGED <<now, pc, frame, calls, locks, tracker_vars, notifier_vars, sched_vars,
                   loop_vars, heal_vars, probe, optimizer_vars, exit_vars>>

-----------------------------------------------------------------------------
(* SatoMonitoringSystem: the batch monitor and process_check_result *)

MaxCycles == 2

CyclePeriod == 8

SatoFlapWindow == 300

SatoFlapThreshold == 4

AckWindow == 3600

AlertGroupDelay == 30

\* the enabled regular services, in the order of the configuration
Order == <<"w1", "w2">>

Target(th) == IF th = "w1" THEN "api" ELSE "db"

\* settings_manager.servers: discovered Docker services come after the others
ServerOrder == <<"api", "db">>

ServerIndex(server_name) ==
    (CHOOSE i \in DOMAIN ServerOrder : ServerOrder[i] = server_name) - 1

ServerAt(server_index) == ServerOrder[server_index + 1]

\* ServerConfig.check_interval: the default, and one set in the settings dialog
CheckInterval(server_name) == IF server_name = "api" THEN 30 ELSE 15

\* ServerConfig.host: an API on the network and a service on this machine
Host(server_name) == IF server_name = "api" THEN "https://api.example.com" ELSE "localhost"

\* ServerConfig.restart_command
RestartCommand(server_name) ==
    IF server_name = "api" THEN "systemctl restart api" ELSE "docker restart db"

\* ServerConfig.type
ServerType(server_name) ==
    IF server_name \in docker_services THEN "docker_service" ELSE "server"

\* discover_service_dependencies, lines 1454-1475: the servers with "db" in
\* their name are depended on by those with "api" in their name
ServiceDependencies(server_name) == IF server_name = "db" THEN <<"api">> ELSE <<>>

NoAction == [action |-> "", timestamp |-> 0, success |-> FALSE, recovery_time |-> 0]

InitHeal ==
    /\ maintenance_mode = FALSE
    /\ retry_counts = [s \in Servers |-> 0]
    /\ failure_timestamps = [s \in Servers |-> <<>>]
    /\ healing_actions = [s \in Servers |-> NoAction]
    /\ restart_threads = <<>>
    /\ check_interval = [s \in Servers |-> CheckInterval(s)]
    /\ reset_threads = <<>>
    /\ attempts = <<>>
    /\ restarts = <<>>
    /\ since_success = [s \in Servers |-> 0]
    /\ recoveries = [s \in Servers |-> 0]
    /\ failed_after = [s \in Servers |-> FALSE]

\* the context in which the results of a server are processed
ThreadOf(server_name) == CHOOSE th \in Workers : Target(th) = server_name

\* lines 826-834: the two lists of a cycle
DockerList ==
    LET IsDocker(i) == ServerAt(i) \in docker_services
    IN SelectSeq([i \in DOMAIN ServerOrder |-> i - 1], IsDocker)

Regular ==
    LET IsRegular(th) == Target(th) \notin docker_services
    IN SelectSeq(Order, IsRegular)

\* the batch monitor is between two cycles
Sleeping == Len(Order) + 1

\* the batch monitor has left the loop
Ended == Len(Order) + 2

NoRequest ==
    [at |-> "idle", server |-> "", current_time |-> 0, result |-> <<"", 0>>,
     size |-> 0, clean_time |-> 0, expired |-> {}]

\* the ServerConfig objects as configured; start_monitoring has not yet set
\* _consecutive_success
Configured ==
    [s \in Servers |-> [check_interval |-> <<CheckInterval(s), 1>>,
                        has_counter |-> FALSE, consecutive_success |-> 0]]

\* PerformanceOptimizer.__init__, lines 16-21
InitOptimizerWith(objects) ==
    /\ check_cache = EmptyMap
    /\ last_cleanup = StartTime
    /\ cache_pc = [w \in Workers |-> NoRequest]
    /\ probe_log = <<>>
    /\ cache_answers = <<>>
    /\ tuned_servers \in objects
    /\ optimize_calls = 0

InitOptimizer == InitOptimizerWith({Configured})

InitExit ==
    /\ destroy_pc = ""
    /\ in_flight = [s \in Servers |-> 0]

InitLoopWith(docker, objects) ==
    /\ InitHeal /\ InitOptimizerWith(objects) /\ InitExit
    /\ monitoring_active = TRUE
    /\ docker_services = docker
    /\ hosts = [s \in Servers |-> Host(s)]
    /\ batch_pc = "idle"
    /\ docker_results = <<>>
    /\ caught = {}
    /\ check_starts = [s \in Servers |-> <<>>]

InitLoop(docker) == InitLoopWith(docker, {Configured})

\* the batch thread is in batch_docker_checks or in the loop of lines 841-842
BatchBusy ==
    \/ batch_pc = "enumerating"
    \/ docker_results # <<>>
    \/ batch_pc \in Workers /\ pc[batch_pc] # "idle"

\* ServerConfig.group (core/settings.py)
Group(server_name) == "Default"

InitSched ==
    /\ server_status = [s \in Servers |-> "checking"]
    /\ spc = [th \in Workers |-> "idle"]
    /\ result = [th \in Workers |-> <<"", 0>>]
    /\ cycle = 0
    /\ started = Sleeping
    /\ sato_change_history = [s \in Servers |-> <<>>]
    /\ acknowledged_alerts = EmptyMap
    /\ pending_alerts = EmptyMap
    /\ alert_timers = {}
    /\ alert_groups = EmptyMap
    /\ detected = <<>>
    /\ submitted = <<>>

Without(map, key) == [k \in DOMAIN map \ {key} |-> map[k]]

\* the check thread of the target, if any, has processed its result (line 853)
CheckDone(th) ==
    \/ spc[th] = "idle"
    \/ spc[th] = "processed" /\ pc[th] = "idle"

\* the time from one cycle to the next: the sleep of line 876, or a longer time
CycleTimes == {CyclePeriod, CyclePeriod + AlertGroupDelay}

\* line 876: time.sleep(8); the checks, which time out after 4 s (line 851),
\* have returned and have been processed by then
Sleep(slept) ==
    /\ started = Len(Regular)
    /\ ~BatchBusy
    /\ \A th \in Workers : CheckDone(th)
    /\ started' = Sleeping
    /\ now' = now + slept
    /\ UNCHANGED <<pc, frame, calls, locks, tracker_vars, outside_sched, loop_vars, server_status, spc,
                   result, cycle, sato_change_history, acknowledged_alerts,
                   pending_alerts, alert_timers, alert_groups, detected, submitted>>

\* lines 823-836: the next turn of `while self.monitoring_active`
NextCycle ==
    /\ started = Sleeping
    /\ monitoring_active
    /\ cycle' = cycle + 1
    /\ started' = 0
    /\ batch_pc' = IF DockerList # <<>> THEN "enumerating" ELSE "idle"
    /\ check_starts' = [s \in Servers |->
                           IF s \in docker_services THEN Append(check_starts[s], now)
                           ELSE check_starts[s]]
    /\ UNCHANGED <<monitoring_active, docker_services, hosts, docker_results, caught>>
    /\ UNCHANGED <<now, pc, frame, calls, locks, tracker_vars, outside_sched, server_status,
                   spc, result, sato_change_history, acknowledged_alerts,
                   pending_alerts, alert_timers, alert_groups, detected, submitted>>

\* lines 844-868: the next service of the cycle gets its own thread
StartCheck ==
    /\ started < Len(Regular)
    /\ ~BatchBusy
    /\ CheckDone(Regular[started + 1])
    /\ spc' = [spc EXCEPT ![Regular[started + 1]] = "checking"]
    /\ started' = started + 1
    /\ check_starts' = [check_starts EXCEPT ![Target(Regular[started + 1])] = Append(@, now)]
    /\ UNCHANGED <<monitoring_active, docker_services, hosts, batch_pc, docker_results, caught>>
    /\ UNCHANGED <<now, pc, frame, calls, locks, tracker_vars, outside_sched, server_status,
                   result, cycle, sato_change_history, acknowledged_alerts,
                   pending_alerts, alert_timers, alert_groups, detected, submitted>>

\* lines 849-851: check_server returns
CheckReturns(th, outcome) ==
    /\ spc[th] = "checking"
    /\ spc' = [spc EXCEPT ![th] = "returned"]
    /\ result' = [result EXCEPT ![th] = outcome]
    /\ UNCHANGED <<now, pc, frame, calls, locks, tracker_vars, outside_sched, loop_vars, server_status,
                   cycle, started, sato_change_history, acknowledged_alerts,
                   pending_alerts, alert_timers, alert_groups, detected, submitted>>

\* on_refresh, lines 1922-1937: the refresh button sets every displayed status
\* to "checking"
OnRefresh ==
    /\ \E s \in Servers : server_status[s] # "checking"
    /\ server_status' = [s \in Servers |-> "checking"]
    /\ UNCHANGED <<now, pc, frame, calls, locks, tracker_vars, outside_sched, loop_vars, spc,
                   result, cycle, started, sato_change_history, acknowledged_alerts,
                   pending_alerts, alert_timers, alert_groups, detected, submitted>>

\* a scheduler that hands results over when the whole cycle has returned
ResultReadyBatch(th) ==
    /\ spc[th] = "returned"
    /\ started = Len(Regular)
    /\ \A other \in Workers : spc[other] # "checking"

\* lines 849-853: the thread goes on with its own result
ResultReady(th) == spc[th] = "returned"

\* is_service_flapping, lines 1120-1151
ChangesAfter(history, current_time) ==
    LET Recent(t) == current_time - t < SatoFlapWindow
    IN SelectSeq(Append(history, current_time), Recent)

IsServiceFlapping(history) == Len(history) > SatoFlapThreshold

AlertKey(server_name, new_status) == Group(server_name) \o "_" \o new_status

Acknowledged(server_name, current_time) ==
    /\ server_name \in DOMAIN acknowledged_alerts
    /\ current_time - acknowledged_alerts[server_name] < AckWindow

\* should_send_alert, lines 1498-1529: the answer and the groups it leaves, when
\* the test of line 1511 has found the alert key present or not
GroupAlert(server_name, new_status, current_time, present) ==
    LET alert_key == AlertKey(server_name, new_status)
    IN IF Acknowledged(server_name, current_time)
       THEN [send |-> FALSE, pending |-> pending_alerts, timers |-> alert_timers]
       ELSE IF present
       THEN [send |-> FALSE,
             pending |-> [pending_alerts EXCEPT
                             ![alert_key].services = Append(@, server_name),
                             ![alert_key].last_update = current_time],
             timers |-> alert_timers]
       ELSE [send |-> FALSE,
             pending |-> (alert_key :> [services |-> <<server_name>>,
                                        status |-> new_status,
                                        group |-> Group(server_name),
                                        first_alert |-> current_time,
                                        last_update |-> current_time])
                             @@ pending_alerts,
             timers |-> alert_timers \cup
                           {[key |-> alert_key, due |-> current_time + AlertGroupDelay]}]

\* should_send_alert run without another thread between its statements
ShouldSendAlert(server_name, new_status, current_time) ==
    GroupAlert(server_name, new_status, current_time,
               AlertKey(server_name, new_status) \in DOMAIN pending_alerts)

\* send_grouped_notification, lines 1569-1579: the call it makes, if any
SendGroupedNotification(server_name, old_status, new_status) ==
    IF new_status = "down" /\ old_status = "operational"
    THEN <<[server |-> server_name, old |-> old_status, new |-> new_status,
            at |-> now]>>
    ELSE <<>>

AutoRestartEnabled == TRUE

FailureWindow == 3600

MaxRecentFailures == 5

MaxRestartAttempts == 3

BackoffBase == 30

BackoffCap == 300

FrequencyResetDelay == 600

MinCheckInterval == 5

\* the prefixes is_external_service tests that the host starts with
HostPrefixes(host) ==
    CASE host = "https://api.example.com" -> {"https://"}
      [] host = "http://localhost:5432" -> {"http://"}
      [] host = "localhost" -> {"localhost"}
      [] host = "127.0.0.1:5432" -> {"127.0.0.1"}
      [] host = "db.example.com" -> {}
      [] OTHER -> {}

\* is_external_service, lines 1274-1288
IsExternalService(server_name) ==
    LET prefixes == HostPrefixes(hosts[server_name])
    IN IF prefixes \cap {"http://", "https://"} # {} THEN TRUE
       ELSE prefixes \cap {"localhost", "127.0.0.1", "0.0.0.0"} = {}

\* a should_attempt_restart that does not look at the host
ShouldAttemptRestartAnyHost(server_name, stamps) ==
    /\ AutoRestartEnabled /\ ~maintenance_mode
    /\ ~(Len(stamps) > MaxRecentFailures)
    /\ ServerType(server_name) \notin {"external_api", "third_party"}
    /\ ~(retry_counts[server_name] >= MaxRestartAttempts)

\* should_attempt_restart, lines 1180-1208; stamps is failure_timestamps[name]
ShouldAttemptRestart(server_name, stamps) ==
    /\ AutoRestartEnabled /\ ~maintenance_mode
    /\ ~IsExternalService(server_name)
    /\ ~(Len(stamps) > MaxRecentFailures)
    /\ ServerType(server_name) \notin {"external_api", "third_party"}
    /\ ~(retry_counts[server_name] >= MaxRestartAttempts)

Min(a, b) == IF a <= b THEN a ELSE b

Max(a, b) == IF a >= b THEN a ELSE b

\* attempt_auto_restart, line 1220
BackoffDelay(retry_count) == Min(BackoffBase * (2 ^ retry_count), BackoffCap)

\* increase_monitoring_frequency for each of the dependent services in turn
RECURSIVE Halved(_, _)
Halved(intervals, dependents) ==
    IF dependents = <<>> THEN intervals
    ELSE Halved([intervals EXCEPT ![Head(dependents)] = Max(MinCheckInterval, @ \div 2)],
                Tail(dependents))

RECURSIVE Resets(_, _, _)
Resets(intervals, dependents, current_time) ==
    IF dependents = <<>> THEN <<>>
    ELSE <<[server |-> Head(dependents), original |-> intervals[Head(dependents)],
            due |-> current_time + FrequencyResetDelay]>>
             \o Resets(Halved(intervals, <<Head(dependents)>>), Tail(dependents),
                       current_time)

\* handle_service_failure, lines 1153-1178, with attempt_auto_restart up to the
\* start of the thread and check_cascade_failures
HandleServiceFailure(server_name, current_time) ==
    LET InHour(ts) == current_time - ts < FailureWindow
        stamps == SelectSeq(Append(failure_timestamps[server_name], current_time), InHour)
        retry_count == retry_counts[server_name]
        dependents == ServiceDependencies(server_name)
    IN /\ failure_timestamps' = [failure_timestamps EXCEPT ![server_name] = stamps]
       /\ IF ShouldAttemptRestart(server_name, stamps)
          THEN /\ restart_threads' = Append(restart_threads,
                      [server |-> server_name, retry_count |-> retry_count,
                       due |-> current_time + BackoffDelay(retry_count),
                       epoch |-> recoveries[server_name]])
               /\ attempts' = Append(attempts,
                      [server |-> server_name, at |-> current_time,
                       recent_failures |-> Len(stamps)])
          ELSE UNCHANGED <<restart_threads, attempts>>
       /\ check_interval' = Halved(check_interval, dependents)
       /\ reset_threads' = reset_threads \o Resets(check_interval, dependents, current_time)
       /\ UNCHANGED <<retry_counts, healing_actions>>

\* handle_service_recovery, lines 1364-1376
HandleServiceRecovery(server_name, current_time) ==
    /\ retry_counts' = [retry_counts EXCEPT ![server_name] = 0]
    /\ healing_actions' =
          IF healing_actions[server_name] # NoAction
          THEN [healing_actions EXCEPT ![server_name].recovery_time = current_time]
          ELSE healing_actions
    /\ UNCHANGED <<failure_timestamps, restart_threads, attempts, check_interval,
                   reset_threads>>

\* process_check_result, lines 884-913: the new status, handle_status_change
\* (1097-1118) and the update of server_status
ApplyResultSeen(server_name, new_status, present) ==
    /\ LET old_status == server_status[server_name]
           changed == old_status # new_status /\ old_status # "checking"
           history == ChangesAfter(sato_change_history[server_name], now)
           flapping == IsServiceFlapping(history)
           alert == GroupAlert(server_name, new_status, now, present)
       IN /\ IF changed /\ ~flapping /\ new_status = "down" /\ old_status # "down"
             THEN HandleServiceFailure(server_name, now)
             ELSE IF /\ changed /\ ~flapping /\ new_status = "operational"
                     /\ old_status \in {"down", "degraded"}
             THEN HandleServiceRecovery(server_name, now)
             ELSE UNCHANGED <<retry_counts, failure_timestamps, healing_actions,
                              restart_threads, check_interval, reset_threads, attempts>>
          /\ IF changed
             THEN /\ sato_change_history' =
                        [sato_change_history EXCEPT ![server_name] = history]
                  /\ detected' = Append(detected,
                        [server |-> server_name, old |-> old_status,
                         new |-> new_status, at |-> now, flapping |-> flapping,
                         acknowledged |-> Acknowledged(server_name, now)])
                  /\ IF flapping
                     THEN UNCHANGED <<pending_alerts, alert_timers, submitted>>
                     ELSE /\ pending_alerts' = alert.pending
                          /\ alert_timers' = alert.timers
                          /\ submitted' =
                                IF alert.send
                                THEN submitted \o SendGroupedNotification(
                                                      server_name, old_status, new_status)
                                ELSE submitted
             ELSE UNCHANGED <<sato_change_history, detected, pending_alerts,
                              alert_timers, submitted>>
          /\ server_status' = [server_status EXCEPT ![server_name] = new_status]
          /\ IF old_status \in {"down", "degraded"} /\ new_status = "operational"
             THEN /\ since_success' = [since_success EXCEPT ![server_name] = 0]
                  /\ recoveries' = [recoveries EXCEPT ![server_name] = @ + 1]
                  /\ failed_after' = [failed_after EXCEPT ![server_name] = FALSE]
             ELSE UNCHANGED <<since_success, recoveries, failed_after>>
    /\ UNCHANGED <<maintenance_mode, restarts, acknowledged_alerts, alert_groups>>

\* process_check_result run without another thread between its statements
ApplyResult(server_name, new_status) ==
    ApplyResultSeen(server_name, new_status,
                    AlertKey(server_name, new_status) \in DOMAIN pending_alerts)

\* process_check_result, lines 882-922, up to the call of record_status
ProcessResultSeen(th, check_result, present) ==
    /\ ApplyResultSeen(Target(th), check_result[1], present)
    /\ RecordStatusCall(th, Target(th), check_result[1], check_result[2])
    /\ spc' = [spc EXCEPT ![th] = "processed"]
    /\ UNCHANGED <<notifier_vars, checker_vars, optimizer_vars, exit_vars, result, cycle, started>>

ProcessResult(th, check_result) ==
    ProcessResultSeen(th, check_result,
                      AlertKey(Target(th), check_result[1]) \in DOMAIN pending_alerts)

\* line 853: the check thread processes the result of its own check
ProcessCheckResult(th) ==
    /\ ResultReady(th)
    /\ ProcessResult(th, result[th])
    /\ UNCHANGED loop_vars

\* lines 854-860: check_server raised; the thread makes a failing result of it
CheckRaises(th) ==
    /\ spc[th] = "checking"
    /\ spc' = [spc EXCEPT ![th] = "returned"]
    /\ result' = [result EXCEPT ![th] = <<"down", 0>>]
    /\ caught' = caught \cup {"check_and_update"}
    /\ UNCHANGED <<monitoring_active, docker_services, hosts, batch_pc, docker_results,
                   check_starts>>
    /\ UNCHANGED <<now, pc, frame, calls, locks, tracker_vars, outside_sched, server_status,
                   cycle, started, sato_change_history, acknowledged_alerts,
                   pending_alerts, alert_timers, alert_groups, detected, submitted>>

\* lines 884, 929-930: process_check_result raised at its first statement (the
\* server list has changed); the exception is printed and the call returns
ProcessRaises(th) ==
    /\ ResultReady(th)
    /\ spc' = [spc EXCEPT ![th] = "processed"]
    /\ caught' = caught \cup {"process_check_result"}
    /\ UNCHANGED <<monitoring_active, docker_services, hosts, batch_pc, docker_results,
                   check_starts>>
    /\ UNCHANGED <<now, pc, frame, calls, locks, tracker_vars, outside_sched, server_status,
                   result, cycle, started, sato_change_history, acknowledged_alerts,
                   pending_alerts, alert_timers, alert_groups, detected, submitted>>

\* a loop without the except clause of line 872
LoopLeft == Ended

\* where the batch thread goes on after its except clause (lines 872-876)
AfterLoopError == Len(Regular)

\* lines 866, 872-873: starting a thread raised (RuntimeError: can't start new
\* thread); the rest of the cycle is skipped
LoopRaises ==
    /\ started < Len(Regular)
    /\ ~BatchBusy
    /\ started' = AfterLoopError
    /\ caught' = caught \cup {"batch_monitor"}
    /\ UNCHANGED <<monitoring_active, docker_services, hosts, batch_pc, docker_results,
                   check_starts>>
    /\ UNCHANGED <<now, pc, frame, calls, locks, tracker_vars, outside_sched, server_status,
                   spc, result, cycle, sato_change_history, acknowledged_alerts,
                   pending_alerts, alert_timers, alert_groups, detected, submitted>>

\* on_destroy, line 2035
Destroy ==
    /\ monitoring_active
    /\ monitoring_active' = FALSE
    /\ UNCHANGED <<docker_services, hosts, batch_pc, docker_results, caught, check_starts>>
    /\ UNCHANGED <<now, pc, frame, calls, locks, tracker_vars, outside_sched, sched_vars>>

EventsFor(events, server_name) ==
    LET Of(e) == e.server_name = server_name
    IN Len(SelectSeq(events, Of))

\* the check thread is between the start of its check and the end of record_status
InFlight(th) == spc[th] \in {"checking", "returned"} \/ pc[th] # "idle"

\* on_destroy, lines 2030-2045: the flag, the shutdown of the optimizer (no
\* request is running in its pool) and the call of save_history
OnDestroy ==
    /\ destroy_pc = ""
    /\ pc["main"] = "idle"
    /\ \A w \in Workers : cache_pc[w].at = "idle"
    /\ monitoring_active' = FALSE
    /\ check_cache' = EmptyMap
    /\ in_flight' =
          [s \in Servers |->
              LET recorded == EventsFor(recent_events, s)
                  flying == {th \in Workers : Target(th) = s /\ InFlight(th)}
              IN IF flying = {} THEN 0
                 ELSE IF \E th \in flying : pc[th] = "rs_unlocked" THEN recorded
                 ELSE recorded + 1]
    /\ destroy_pc' = "saving"
    /\ calls' = calls + 1
    /\ UNCHANGED locks
    /\ frame' = [frame EXCEPT !["main"] = [EmptyFrame EXCEPT !.caller = "save"]]
    /\ pc' = [pc EXCEPT !["main"] = "sv_lock"]
    /\ UNCHANGED <<docker_services, hosts, batch_pc, docker_results, caught, check_starts>>
    /\ UNCHANGED <<now, tracker_vars, notifier_vars, checker_vars, heal_vars, sched_vars,
                   last_cleanup, cache_pc, probe_log, cache_answers, tuning_vars>>

\* lines 2047-2051: save_history has returned; Gtk.main_quit() ends the main loop
\* and with it the process and its daemon threads
Quit ==
    /\ destroy_pc = "saving"
    /\ pc["main"] = "idle"
    /\ destroy_pc' = "quit"
    /\ UNCHANGED <<now, pc, frame, calls, locks, tracker_vars, notifier_vars, checker_vars,
                   optimizer_vars, heal_vars, sched_vars, loop_vars, in_flight>>

-----------------------------------------------------------------------------
(* PerformanceOptimizer._cached_health_check, run by the workers of the pool *)

MaxRequests == 3

CacheTtl == 5                 \* self.cache_ttl

CleanupEvery == 60            \* line 95

CacheTicks == {CheckTimeout, CleanupEvery + 1}

\* the times at which the requests of the pool are looked at
CacheTimes ==
    {StartTime + x : x \in {0, CheckTimeout, CleanupEvery + 1,
                            CleanupEvery + 1 + CheckTimeout}}

CacheHorizon == StartTime + CleanupEvery + 1 + CheckTimeout

CacheTick(d) == now + d \in CacheTimes /\ Tick(d, CacheHorizon)

CacheKey(server_name) == server_name \o "_" \o Host(server_name)

Requests == Len(cache_answers) + Cardinality({v \in Workers : cache_pc[v].at # "idle"})

\* the call returns (raised = "") or raises; parallel_health_checks turns a raise
\* into CheckResult(False, 0, "Check failed: ..."), lines 39-45
Answer(w, request, cached, returned, raised) ==
    /\ cache_answers' =
          Append(cache_answers,
                 [worker |-> w, server |-> request.server, at |-> request.current_time,
                  cached |-> cached, result |-> returned, error |-> raised])
    /\ cache_pc' = [cache_pc EXCEPT ![w] = NoRequest]

\* lines 79-83: the key, the time of the request and the test `cache_key in
\* self.check_cache`
CachedHealthCheck(w, server_name) ==
    /\ cache_pc[w].at = "idle"
    /\ Requests < MaxRequests
    /\ cache_pc' = [cache_pc EXCEPT ![w] =
                      [NoRequest EXCEPT
                          !.at = IF CacheKey(server_name) \in DOMAIN check_cache
                                 THEN "reading" ELSE "probing",
                          !.server = server_name,
                          !.current_time = now]]
    /\ UNCHANGED <<check_cache, last_cleanup, probe_log, cache_answers>>
    /\ UNCHANGED <<now, pc, frame, calls, locks, tracker_vars, notifier_vars, sched_vars,
                   checker_vars, exit_vars, loop_vars, heal_vars, tuning_vars>>

\* lines 84-86: the entry is read; a fresh one is returned, a stale one goes on to
\* check_server, an entry deleted since the test raises KeyError
CacheRead(w) ==
    /\ cache_pc[w].at = "reading"
    /\ LET request == cache_pc[w]
           cache_key == CacheKey(request.server)
       IN IF cache_key \notin DOMAIN check_cache
          THEN Answer(w, request, FALSE, <<"", 0>>, "KeyError")
          ELSE IF request.current_time - check_cache[cache_key].time < CacheTtl
          THEN Answer(w, request, TRUE, check_cache[cache_key].result, "")
          ELSE /\ cache_pc' = [cache_pc EXCEPT ![w].at = "probing"]
               /\ UNCHANGED cache_answers
    /\ UNCHANGED <<check_cache, last_cleanup, probe_log>>
    /\ UNCHANGED <<now, pc, frame, calls, locks, tracker_vars, notifier_vars, sched_vars,
                   checker_vars, exit_vars, loop_vars, heal_vars, tuning_vars>>

\* lines 88-95 and 103-104: check_server returns, the result is stored with the
\* time of the request; once a minute _cleanup_cache begins to iterate the dict
CheckCompletes(w, outcome) ==
    /\ cache_pc[w].at = "probing"
    /\ LET request == cache_pc[w]
           stored == (CacheKey(request.server) :>
                          [result |-> outcome, time |-> request.current_time])
                         @@ check_cache
       IN /\ probe_log' = Append(probe_log,
                                 [server |-> request.server, worker |-> w,
                                  requested |-> request.current_time, result |-> outcome])
          /\ check_cache' = stored
          /\ IF request.current_time - last_cleanup > CleanupEvery
             THEN /\ cache_pc' = [cache_pc EXCEPT ![w] =
                                     [request EXCEPT !.at = "cleaning",
                                                     !.result = outcome,
                                                     !.size = Cardinality(DOMAIN stored),
                                                     !.clean_time = now]]
                  /\ UNCHANGED cache_answers
             ELSE Answer(w, request, FALSE, outcome, "")
    /\ UNCHANGED last_cleanup
    /\ UNCHANGED <<now, pc, frame, calls, locks, tracker_vars, notifier_vars, sched_vars,
                   checker_vars, exit_vars, loop_vars, heal_vars, tuning_vars>>

\* the keys _cleanup_cache finds expired, lines 104-108
ExpiredKeys(cache, current_time) ==
    {key \in DOMAIN cache : current_time - cache[key].time > CacheTtl * 2}

\* lines 104-108: the iteration over self.check_cache.items() ends; a dict whose
\* size changed since the iteration began raises RuntimeError
CleanupScan(w) ==
    /\ cache_pc[w].at = "cleaning"
    /\ LET request == cache_pc[w]
       IN IF Cardinality(DOMAIN check_cache) # request.size
          THEN Answer(w, request, FALSE, request.result, "RuntimeError")
          ELSE /\ cache_pc' = [cache_pc EXCEPT ![w] =
                                  [request EXCEPT
                                      !.at = "deleting",
                                      !.expired = ExpiredKeys(check_cache,
                                                              request.clean_time)]]
               /\ UNCHANGED cache_answers
    /\ UNCHANGED <<check_cache, last_cleanup, probe_log>>
    /\ UNCHANGED <<now, pc, frame, calls, locks, tracker_vars, notifier_vars, sched_vars,
                   checker_vars, exit_vars, loop_vars, heal_vars, tuning_vars>>

\* lines 110-111 and 97-99: one `del self.check_cache[key]` (the keys are taken
\* in the order of the dict, which the map does not keep), or, after the last
\* one, the time of the cleanup is stored and the result returned
CleanupDelete(w) ==
    /\ cache_pc[w].at = "deleting"
    /\ LET request == cache_pc[w]
       IN IF request.expired = {}
          THEN /\ last_cleanup' = request.current_time
               /\ Answer(w, request, FALSE, request.result, "")
               /\ UNCHANGED check_cache
          ELSE \E key \in request.expired :
                  IF key \notin DOMAIN check_cache
                  THEN /\ Answer(w, request, FALSE, request.result, "KeyError")
                       /\ UNCHANGED <<check_cache, last_cleanup>>
                  ELSE /\ check_cache' = [k \in DOMAIN check_cache \ {key} |->
                                             check_cache[k]]
                       /\ cache_pc' = [cache_pc EXCEPT
                                          ![w].expired = request.expired \ {key}]
                       /\ UNCHANGED <<cache_answers, last_cleanup>>
    /\ UNCHANGED probe_log
    /\ UNCHANGED <<now, pc, frame, calls, locks, tracker_vars, notifier_vars, sched_vars,
                   checker_vars, exit_vars, loop_vars, heal_vars, tuning_vars>>

-----------------------------------------------------------------------------
(* PerformanceOptimizer.optimize_check_intervals; check_interval becomes a    *)
(* float, kept as an exact fraction                                           *)

MaxOptimize == 3

StableStreak == 10            \* line 118

UnstableStreak == 3           \* line 121

RelaxedLimit == 60            \* line 120

TightenedLimit == 10          \* line 123

RatLess(a, b) == a[1] * b[2] < b[1] * a[2]

RatTimes(a, n, d) == Rat(a[1] * n, a[2] * d)

\* min and max of Python return the first argument unless the second is
\* strictly smaller (larger)
PyMin(a, b) == IF RatLess(b, a) THEN b ELSE a

PyMax(a, b) == IF RatLess(a, b) THEN b ELSE a

\* the body of the loop, lines 116-125
OptimizedServer(server) ==
    IF server.has_counter
    THEN IF server.consecutive_success > StableStreak
         THEN [server EXCEPT !.check_interval =
                                PyMin(RatTimes(@, 6, 5), <<RelaxedLimit, 1>>)]
         ELSE IF server.consecutive_success < UnstableStreak
         THEN [server EXCEPT !.check_interval =
                                PyMax(RatTimes(@, 4, 5), <<TightenedLimit, 1>>)]
         ELSE server
    ELSE [server EXCEPT !.has_counter = TRUE, !.consecutive_success = 0]

optimize_check_intervals(servers) ==
    [s \in DOMAIN servers |-> OptimizedServer(servers[s])]

OptimizeCheckIntervals ==
    /\ optimize_calls < MaxOptimize
    /\ optimize_calls' = optimize_calls + 1
    /\ tuned_servers' = optimize_check_intervals(tuned_servers)
    /\ UNCHANGED <<check_cache, last_cleanup, cache_pc, probe_log, cache_answers>>
    /\ UNCHANGED <<now, pc, frame, calls, locks, tracker_vars, notifier_vars, sched_vars,
                   checker_vars, exit_vars, loop_vars, heal_vars>>

\* process_check_result, sato.py lines 901-907: the streak of a target grows
\* with a healthy result and ends with any other
CountResult(server_name, is_healthy) ==
    /\ tuned_servers[server_name].consecutive_success <= StableStreak
    /\ tuned_servers' =
          [tuned_servers EXCEPT ![server_name] =
              [@ EXCEPT !.has_counter = TRUE,
                        !.consecutive_success = IF is_healthy THEN @ + 1 ELSE 0]]
    /\ UNCHANGED <<check_cache, last_cleanup, cache_pc, probe_log, cache_answers,
                   optimize_calls>>
    /\ UNCHANGED <<now, pc, frame, calls, locks, tracker_vars, notifier_vars, sched_vars,
                   checker_vars, exit_vars, loop_vars, heal_vars>>

DockerElapsed == 120

\* what `docker ps` does: it lists, for every Docker service, all, some or none
\* of its containers as up; or it exits with a code other than 0; or it raises
DockerOutcomes ==
    {[kind |-> "listed", up |-> u] : u \in [docker_services -> {"all", "some", "none"}]}
        \cup {[kind |-> k, up |-> [s \in docker_services |-> "none"]] :
                  k \in {"exit1", "raised"}}

\* batch_docker_checks, lines 127-203: docker_results.items(), in order
batch_docker_checks(docker_list, io) ==
    CASE io.kind = "exit1" ->
             [i \in DOMAIN docker_list |-> [index |-> i - 1, result |-> <<"down", 0>>]]
      [] io.kind = "raised" ->
             [i \in DOMAIN docker_list |->
                 [index |-> docker_list[i], result |-> <<"down", 0>>]]
      [] OTHER ->
             [i \in DOMAIN docker_list |->
                 [index |-> docker_list[i],
                  result |-> CASE io.up[ServerAt(docker_list[i])] = "all" ->
                                      <<"operational", DockerElapsed>>
                               [] io.up[ServerAt(docker_list[i])] = "some" ->
                                      <<"degraded", DockerElapsed>>
                               [] OTHER -> <<"down", DockerElapsed>>]]

\* lines 838-840: batch_docker_checks returns
DockerReturns(io) ==
    /\ batch_pc = "enumerating"
    /\ batch_pc' = "idle"
    /\ docker_results' = batch_docker_checks(DockerList, io)
    /\ UNCHANGED <<monitoring_active, docker_services, hosts, caught, check_starts>>
    /\ UNCHANGED <<now, pc, frame, calls, locks, tracker_vars, outside_sched, sched_vars>>

\* lines 841-842: the batch thread processes the next Docker result itself
ProcessDockerResult ==
    /\ docker_results # <<>>
    /\ batch_pc \in Workers => pc[batch_pc] = "idle"
    /\ LET item == Head(docker_results)
           th == ThreadOf(ServerAt(item.index))
       IN /\ ProcessResult(th, item.result)
          /\ batch_pc' = th
    /\ docker_results' = Tail(docker_results)
    /\ UNCHANGED <<monitoring_active, docker_services, hosts, caught, check_starts>>

\* ServerConfig.auto_restart
AutoRestart(server_name) == TRUE

\* restart_command: Optional[str] = None
NoCommand == "none"

\* execute_restart_command, lines 1247-1272: whether a command is run and the
\* value returned, given whether the command succeeds
ExecuteRestartCommand(server_name, command_ok) ==
    LET no == [ran |-> FALSE, success |-> FALSE]
        run == [ran |-> TRUE, success |-> command_ok]
    IN CASE ~AutoRestart(server_name) -> no
         [] RestartCommand(server_name) = NoCommand -> no
         [] ServerType(server_name) = "docker_service" -> run
         [] RestartCommand(server_name) # "" -> run
         [] IsExternalService(server_name) -> no
         [] OTHER -> run

RemoveAt(seq, i) == SubSeq(seq, 1, i - 1) \o SubSeq(seq, i + 1, Len(seq))

\* restart_after_delay, lines 1222-1241, when its sleep is over
RestartAfterDelay(i, command_ok) ==
    /\ i \in DOMAIN restart_threads
    /\ now >= restart_threads[i].due
    /\ LET server_name == restart_threads[i].server
           done == ExecuteRestartCommand(server_name, command_ok)
       IN /\ retry_counts' =
                [retry_counts EXCEPT ![server_name] =
                    IF done.success THEN 0 ELSE restart_threads[i].retry_count + 1]
          /\ healing_actions' =
                [healing_actions EXCEPT ![server_name] =
                    [action |-> "auto_restart", timestamp |-> now,
                     success |-> done.success, recovery_time |-> 0]]
          /\ restarts' =
                IF done.ran
                THEN Append(restarts, [server |-> server_name, at |-> now,
                                       maintenance |-> maintenance_mode,
                                       success |-> done.success])
                ELSE restarts
          /\ since_success' =
                [since_success EXCEPT ![server_name] =
                    IF done.success THEN 0 ELSE IF done.ran THEN @ + 1 ELSE @]
          /\ failed_after' =
                [failed_after EXCEPT ![server_name] =
                    @ \/ (~done.success /\ restart_threads[i].epoch = recoveries[server_name])]
    /\ restart_threads' = RemoveAt(restart_threads, i)
    /\ UNCHANGED <<maintenance_mode, failure_timestamps, check_interval, reset_threads,
                   attempts, recoveries>>
    /\ UNCHANGED <<now, pc, frame, calls, locks, tracker_vars, notifier_vars, sched_vars,
                   checker_vars, optimizer_vars, exit_vars, loop_vars>>

\* reset_frequency, lines 1406-1409, when its sleep is over
ResetFrequency(i) ==
    /\ i \in DOMAIN reset_threads
    /\ now >= reset_threads[i].due
    /\ check_interval' =
          [check_interval EXCEPT ![reset_threads[i].server] = reset_threads[i].original]
    /\ reset_threads' = RemoveAt(reset_threads, i)
    /\ UNCHANGED <<maintenance_mode, retry_counts, failure_timestamps, healing_actions,
                   restart_threads, attempts, restarts, since_success, recoveries,
                   failed_after>>
    /\ UNCHANGED <<now, pc, frame, calls, locks, tracker_vars, notifier_vars, sched_vars,
                   checker_vars, optimizer_vars, exit_vars, loop_vars>>

\* toggle_maintenance_mode, lines 1415-1427
ToggleMaintenanceMode ==
    /\ maintenance_mode' = ~maintenance_mode
    /\ UNCHANGED <<retry_counts, failure_timestamps, healing_actions, restart_threads,
                   check_interval, reset_threads, attempts, restarts, since_success,
                   recoveries, failed_after>>
    /\ UNCHANGED <<now, pc, frame, calls, locks, tracker_vars, notifier_vars, sched_vars,
                   checker_vars, optimizer_vars, exit_vars, loop_vars>>

\* the statuses process_check_result can compute for a server: only the Docker
\* batch gives results with is_degraded
Statuses(server_name) ==
    IF server_name \in docker_services
    THEN {"operational", "degraded", "down"}
    ELSE {"operational", "down"}

\* send_grouped_alert, lines 1531-1567, called by the GLib timeout
SendGroupedAlert(timer) ==
    /\ timer \in alert_timers
    /\ now >= timer.due
    /\ alert_timers' = alert_timers \ {timer}
    /\ IF timer.key \in DOMAIN pending_alerts
       THEN /\ alert_groups' = (timer.key :> pending_alerts[timer.key]) @@ alert_groups
            /\ pending_alerts' = Without(pending_alerts, timer.key)
       ELSE UNCHANGED <<alert_groups, pending_alerts>>
    /\ UNCHANGED <<now, pc, frame, calls, locks, tracker_vars, outside_sched, loop_vars, server_status,
                   spc, result, cycle, started, sato_change_history,
                   acknowledged_alerts, detected, submitted>>

RemoveName(services, name) ==
    LET first == CHOOSE i \in DOMAIN services :
                    services[i] = name /\ \A k \in 1..(i - 1) : services[k] # name
    IN IF \E i \in DOMAIN services : services[i] = name
       THEN SubSeq(services, 1, first - 1) \o SubSeq(services, first + 1, Len(services))
       ELSE services

\* acknowledge_alert, lines 1581-1594
AcknowledgeCall(server_name_or_group) ==
    /\ acknowledged_alerts' = (server_name_or_group :> now) @@ acknowledged_alerts
    /\ LET removed == [k \in DOMAIN pending_alerts |->
                          [pending_alerts[k] EXCEPT
                              !.services = RemoveName(@, server_name_or_group)]]
           kept == {k \in DOMAIN removed : removed[k].services # <<>>}
       IN pending_alerts' = [k \in kept |-> removed[k]]
    /\ UNCHANGED <<now, pc, frame, calls, locks, tracker_vars, outside_sched, loop_vars, server_status,
                   spc, result, cycle, started, sato_change_history, alert_timers,
                   alert_groups, detected, submitted>>

\* the button of a service that the alert dialog lists as down (lines 1653-1656,
\* 1749)
AcknowledgeAlert(name) ==
    /\ server_status[name] = "down"
    /\ AcknowledgeCall(name)

-----------------------------------------------------------------------------
(* NotificationManager *)

None == "none"

NotifyTypes == {"status_change", "slow_response"}

\* the (old_status, new_status) pairs notify_status_change is called with
StatusChanges ==
    {<<"operational", "down">>, <<"down", "operational">>, <<"operational", "degraded">>,
     <<"degraded", "down">>, <<"down", "down">>, <<"checking", "operational">>,
     <<"operational", "checking">>}

\* the changes concurrent callers report
ConcurrentChanges == {<<"operational", "down">>, <<"down", "operational">>}

\* NotificationSettings() as constructed by default (core/settings.py)
DefaultSettings ==
    [desktop_notifications |-> TRUE, sound_alerts |-> FALSE,
     notify_on_status_change |-> TRUE, notify_on_slow_response |-> FALSE,
     alert_cooldown_seconds |-> DefaultCooldown, enhanced_notifications |-> TRUE]

\* the settings of the notification test, with the original behaviour selected
LegacySettings ==
    [DefaultSettings EXCEPT !.enhanced_notifications = FALSE,
                            !.notify_on_slow_response = TRUE]

NoCall == [id |-> 0, api |-> "", server |-> "", old |-> "", new |-> "", type |-> "",
           current_time |-> 0]

InitNotifyWith(choices) ==
    /\ settings \in choices
    /\ cooldown_period = settings.alert_cooldown_seconds
    /\ last_notifications = EmptyMap
    /\ pending_notifications = <<>>
    /\ batch_timer = 0
    /\ timers = <<>>
    /\ last_meaningful_status = [s \in Servers |-> None]
    /\ status_change_history = [s \in Servers |-> <<>>]
    /\ last_notification_time = [s \in Servers |-> 0]
    /\ npc = [th \in Workers |-> "idle"]
    /\ nframe = [th \in Workers |-> NoCall]
    /\ ncalls = 0
    /\ outcomes = <<>>
    /\ answers = <<>>
    /\ flushes = <<>>

InitNotify == InitNotifyWith({DefaultSettings})

\* the end of a status-change call: its decision is logged
Decided(th, decision) ==
    /\ npc' = [npc EXCEPT ![th] = "idle"]
    /\ nframe' = [nframe EXCEPT ![th] = NoCall]
    /\ outcomes' = Append(outcomes, [id |-> nframe[th].id, server |-> nframe[th].server,
                                     old |-> nframe[th].old,
                                     new |-> nframe[th].new, at |-> now, result |-> decision])

-----------------------------------------------------------------------------
(* NotificationManager.should_notify *)

\* a key that forgets the notification type
NotifyKeyByServer(server_name, notification_type) == server_name

NotifyKey(server_name, notification_type) == server_name \o "_" \o notification_type

\* lines 90-95: the key, the time and the look-up
RateLimited(key, current_time) ==
    /\ key \in DOMAIN last_notifications
    /\ current_time - last_notifications[key] < NotificationCooldown

ShouldNotifyCheck(th) ==
    /\ npc[th] = "sn_check"
    /\ LET key == NotifyKey(nframe[th].server, nframe[th].type)
       IN IF RateLimited(key, now)
          THEN /\ npc' = [npc EXCEPT ![th] = "idle"]
               /\ nframe' = [nframe EXCEPT ![th] = NoCall]
               /\ answers' = Append(answers, [server |-> nframe[th].server,
                                type |-> nframe[th].type, at |-> now, answer |-> FALSE])
          ELSE /\ npc' = [npc EXCEPT ![th] = "sn_store"]
               /\ nframe' = [nframe EXCEPT ![th].current_time = now]
               /\ UNCHANGED answers
    /\ UNCHANGED <<now, outside_notifier, notifier_state, ncalls, outcomes, flushes>>

\* lines 97-98, and the dispatch of the caller that follows a True answer
ShouldNotifyStore(th) ==
    /\ npc[th] = "sn_store"
    /\ last_notifications' =
          (NotifyKey(nframe[th].server, nframe[th].type) :> nframe[th].current_time)
              @@ last_notifications
    /\ answers' = Append(answers, [server |-> nframe[th].server, type |-> nframe[th].type,
                                   at |-> nframe[th].current_time, answer |-> TRUE])
    /\ npc' = [npc EXCEPT ![th] = "idle"]
    /\ nframe' = [nframe EXCEPT ![th] = NoCall]
    /\ UNCHANGED <<now, outside_notifier, settings, cooldown_period,
                   pending_notifications, batch_timer, timers, last_meaningful_status,
                   status_change_history, last_notification_time, ncalls, outcomes,
                   flushes>>

\* notify_slow_response, lines 236-244
NotifySlowResponse(th, server_name) ==
    /\ npc[th] = "idle"
    /\ ncalls' = ncalls + 1
    /\ nframe' = [nframe EXCEPT ![th] =
                     IF settings.notify_on_slow_response
                     THEN [NoCall EXCEPT !.id = ncalls + 1, !.api = "slow_response",
                              !.server = server_name, !.type = "slow_response"]
                     ELSE NoCall]
    /\ npc' = [npc EXCEPT ![th] =
                  IF settings.notify_on_slow_response THEN "sn_check" ELSE "idle"]
    /\ UNCHANGED <<now, outside_notifier, notifier_state, outcomes, answers, flushes>>

-----------------------------------------------------------------------------
(* NotificationManager.notify_status_change *)

\* the rules without rule 3
EarlyRuleNoRepeat(server_name, old_status, new_status) ==
    IF old_status = new_status THEN 1
    ELSE IF old_status = "checking" \/ new_status = "checking" THEN 2
    ELSE 0

\* _should_notify_smart, rules 1 to 3 (lines 499-512): 0 when none applies
EarlyRule(server_name, old_status, new_status) ==
    IF old_status = new_status THEN 1
    ELSE IF old_status = "checking" \/ new_status = "checking" THEN 2
    ELSE IF last_meaningful_status[server_name] = new_status THEN 3
    ELSE 0

RuleName(n) == IF n = 1 THEN "unchanged" ELSE IF n = 2 THEN "checking" ELSE "repeated"

\* lines 109-121, and for the enhanced path lines 134 and 499-512
NotifyStatusChange(th, server_name, old_status, new_status) ==
    /\ npc[th] = "idle"
    /\ ncalls' = ncalls + 1
    /\ LET call == [NoCall EXCEPT !.id = ncalls + 1, !.api = "status_change",
                        !.server = server_name, !.old = old_status,
                        !.new = new_status, !.type = "status_change"]
           rule == EarlyRule(server_name, old_status, new_status)
       IN IF ~settings.notify_on_status_change
          THEN UNCHANGED <<npc, nframe, outcomes>>
          ELSE IF ~settings.enhanced_notifications
          THEN /\ nframe' = [nframe EXCEPT ![th] = call]
               /\ npc' = [npc EXCEPT ![th] = "sn_check"]
               /\ UNCHANGED outcomes
          ELSE IF rule # 0
          THEN /\ outcomes' = Append(outcomes, [id |-> call.id, server |-> server_name,
                                  old |-> old_status, new |-> new_status, at |-> now,
                                  result |-> RuleName(rule)])
               /\ UNCHANGED <<npc, nframe>>
          ELSE /\ nframe' = [nframe EXCEPT ![th] = call]
               /\ npc' = [npc EXCEPT ![th] = "ns_flap"]
               /\ UNCHANGED outcomes
    /\ UNCHANGED <<now, outside_notifier, notifier_state, answers, flushes>>

\* _is_flapping, lines 529-541
RecentChanges(history, current_time) ==
    LET Keep(change) == current_time - change.timestamp < FlapWindow
    IN SelectSeq(history, Keep)

TooManyChanges(history) == Len(history) > FlapThreshold

IsFlapping(th) ==
    /\ npc[th] = "ns_flap"
    /\ LET history == RecentChanges(status_change_history[nframe[th].server], now)
       IN /\ status_change_history' =
                [status_change_history EXCEPT ![nframe[th].server] = history]
          /\ IF TooManyChanges(history)
             THEN Decided(th, "flapping")
             ELSE /\ npc' = [npc EXCEPT ![th] = "ns_cooldown"]
                  /\ UNCHANGED <<nframe, outcomes>>
    /\ UNCHANGED <<now, outside_notifier, settings, cooldown_period, last_notifications,
                   pending_notifications, batch_timer, timers, last_meaningful_status,
                   last_notification_time, ncalls, answers, flushes>>

\* _is_in_cooldown, lines 543-546
InCooldown(server_name, current_time) ==
    current_time - last_notification_time[server_name] < cooldown_period

IsInCooldown(th) ==
    /\ npc[th] = "ns_cooldown"
    /\ IF InCooldown(nframe[th].server, now)
       THEN Decided(th, "cooldown")
       ELSE /\ npc' = [npc EXCEPT ![th] = "ns_accept"]
            /\ UNCHANGED <<nframe, outcomes>>
    /\ UNCHANGED <<now, outside_notifier, notifier_state, ncalls, answers, flushes>>

\* lines 523-527 and _record_status_change, lines 548-554
AcceptChange(th) ==
    /\ npc[th] = "ns_accept"
    /\ last_meaningful_status' =
          [last_meaningful_status EXCEPT ![nframe[th].server] = nframe[th].new]
    /\ status_change_history' =
          [status_change_history EXCEPT ![nframe[th].server] =
              Append(@, [status |-> nframe[th].new, timestamp |-> now])]
    /\ last_notification_time' =
          [last_notification_time EXCEPT ![nframe[th].server] = now]
    /\ npc' = [npc EXCEPT ![th] = "ns_buffer"]
    /\ UNCHANGED nframe
    /\ outcomes' = Append(outcomes, [id |-> nframe[th].id, server |-> nframe[th].server,
                                     old |-> nframe[th].old,
                                     new |-> nframe[th].new, at |-> now, result |-> "accepted"])
    /\ UNCHANGED <<now, outside_notifier, settings, cooldown_period, last_notifications,
                   pending_notifications, batch_timer, timers, ncalls, answers, flushes>>

\* a cancel that has no effect
CancelTimerLost(all, i) == all

\* threading.Timer.cancel: a timer that has not fired yet never will
CancelTimer(all, i) ==
    IF i # 0 /\ all[i].state = "waiting"
    THEN [all EXCEPT ![i].state = "cancelled"]
    ELSE all

\* lines 137-158: the event, then `with self.notification_lock:`
BufferEvent(th) ==
    /\ npc[th] = "ns_buffer"
    /\ pending_notifications' =
          Append(pending_notifications,
                 [id |-> nframe[th].id, server_name |-> nframe[th].server,
                  old_status |-> nframe[th].old, new_status |-> nframe[th].new,
                  timestamp |-> now])
    /\ timers' = Append(CancelTimer(timers, batch_timer),
                        [state |-> "waiting", started |-> now])
    /\ batch_timer' = Len(timers) + 1
    /\ npc' = [npc EXCEPT ![th] = "idle"]
    /\ nframe' = [nframe EXCEPT ![th] = NoCall]
    /\ UNCHANGED <<now, outside_notifier, settings, cooldown_period, last_notifications,
                   last_meaningful_status, status_change_history,
                   last_notification_time, ncalls, outcomes, answers, flushes>>

-----------------------------------------------------------------------------
(* NotificationManager._send_grouped_notifications *)

WithStatus(events, status) ==
    LET Is(e) == e.new_status = status IN SelectSeq(events, Is)

\* the names a group message lists (lines 584-597, 614-627, 640-653)
GroupMessage(partition, group) ==
    LET count == Len(group)
    IN [partition |-> partition, count |-> count,
        names |-> IF count <= NamesShown
                  THEN [i \in 1..count |-> group[i].server_name]
                  ELSE [i \in 1..2 |-> group[i].server_name],
        more |-> IF count <= NamesShown THEN 0 ELSE count - 2]

\* lines 565-578: one message for every partition that is not empty
GroupMessages(events) ==
    LET One(partition) ==
            IF WithStatus(events, partition) # <<>> /\ settings.desktop_notifications
            THEN <<GroupMessage(partition, WithStatus(events, partition))>>
            ELSE <<>>
    IN One("down") \o One("operational") \o One("degraded")

\* a flush that forgets to clear the buffer
SendGroupedKeep(by) ==
    /\ flushes' = IF pending_notifications = <<>>
                  THEN flushes
                  ELSE Append(flushes,
                          [by |-> by, events |-> pending_notifications,
                           messages |-> GroupMessages(pending_notifications),
                           sound |-> FALSE])
    /\ UNCHANGED pending_notifications

\* lines 558-578
SendGrouped(by) ==
    IF pending_notifications = <<>>
    THEN UNCHANGED <<pending_notifications, flushes>>
    ELSE /\ pending_notifications' = <<>>
         /\ flushes' = Append(flushes,
                [by |-> by, events |-> pending_notifications,
                 messages |-> GroupMessages(pending_notifications),
                 sound |-> (WithStatus(pending_notifications, "down") # <<>>
                                /\ settings.sound_alerts)])

\* threading.Timer: the delay has passed and the timer was not cancelled
TimerFire(i) ==
    /\ timers[i].state = "waiting"
    /\ now >= timers[i].started + BatchDelay
    /\ timers' = [timers EXCEPT ![i].state = "running"]
    /\ UNCHANGED <<now, outside_notifier, settings, cooldown_period, last_notifications,
                   pending_notifications, batch_timer, last_meaningful_status,
                   status_change_history, last_notification_time, npc, nframe, ncalls,
                   outcomes, answers, flushes>>

TimerFlush(i) ==
    /\ timers[i].state = "running"
    /\ SendGrouped("timer")
    /\ timers' = [timers EXCEPT ![i].state = "done"]
    /\ UNCHANGED <<now, outside_notifier, settings, cooldown_period, last_notifications,
                   batch_timer, last_meaningful_status, status_change_history,
                   last_notification_time, npc, nframe, ncalls, outcomes, answers>>

\* force_send_pending, lines 664-665
ForceSendPending(th) ==
    /\ npc[th] = "idle"
    /\ ncalls' = ncalls + 1
    /\ timers' = CancelTimer(timers, batch_timer)
    /\ nframe' = [nframe EXCEPT ![th] = [NoCall EXCEPT !.id = ncalls + 1,
                                                      !.api = "force_send_pending"]]
    /\ npc' = [npc EXCEPT ![th] = "fs_flush"]
    /\ UNCHANGED <<now, outside_notifier, settings, cooldown_period, last_notifications,
                   pending_notifications, batch_timer, last_meaningful_status,
                   status_change_history, last_notification_time, outcomes, answers,
                   flushes>>

\* force_send_pending, line 666
ForceFlush(th) ==
    /\ npc[th] = "fs_flush"
    /\ SendGrouped("force")
    /\ npc' = [npc EXCEPT ![th] = "idle"]
    /\ nframe' = [nframe EXCEPT ![th] = NoCall]
    /\ UNCHANGED <<now, outside_notifier, settings, cooldown_period, last_notifications,
                   batch_timer, timers, last_meaningful_status, status_change_history,
                   last_notification_time, ncalls, outcomes, answers>>

-----------------------------------------------------------------------------
(* The notification engine, enhanced mode, under concurrent callers *)

NotifyTicks == {300}

NotifyHorizon == StartTime + FlapWindow

EnhancedStep(th, changes) ==
    \/ /\ ncalls < MaxNotify
       /\ \E s \in Servers, ch \in changes : NotifyStatusChange(th, s, ch[1], ch[2])
    \/ IsFlapping(th)
    \/ IsInCooldown(th)
    \/ AcceptChange(th)
    \/ BufferEvent(th)
    \/ ncalls < MaxNotify /\ ForceSendPending(th)
    \/ ForceFlush(th)

TimerStep ==
    \E i \in DOMAIN timers : TimerFire(i) \/ TimerFlush(i)

InitEngine ==
    InitThreads /\ InitTracker /\ history_file = Absent /\ InitNotify /\ InitSched /\ InitChecker /\ InitLoop({})

NextNotify ==
    \/ \E th \in Workers : EnhancedStep(th, ConcurrentChanges)
    \/ TimerStep
    \/ \E d \in NotifyTicks : Tick(d, NotifyHorizon)

SpecNotify == InitEngine /\ [][NextNotify]_vars

(* The same engine with one caller at a time *)

NextNotifySeq ==
    \/ EnhancedStep("w1", StatusChanges)
    \/ TimerStep
    \/ \E d \in NotifyTicks : Tick(d, NotifyHorizon)

SpecNotifySeq == InitEngine /\ [][NextNotifySeq]_vars

(* The engine while the settings dialog replaces the notification settings *)

ShortCooldown == 60

\* the NotificationSettings the dialog hands over
SettingsChoices ==
    {DefaultSettings,
     [DefaultSettings EXCEPT !.alert_cooldown_seconds = ShortCooldown],
     [DefaultSettings EXCEPT !.notify_on_status_change = FALSE],
     [DefaultSettings EXCEPT !.desktop_notifications = FALSE]}

\* apply_settings_changes, sato.py line 2270
ApplySettingsChanges(notification_settings) ==
    /\ settings # notification_settings
    /\ settings' = notification_settings
    /\ UNCHANGED <<now, outside_notifier, cooldown_period, last_notifications,
                   pending_notifications, batch_timer, timers, last_meaningful_status,
                   status_change_history, last_notification_time, npc, nframe, ncalls,
                   outcomes, answers, flushes>>

SettingsTicks == {ShortCooldown}

SettingsHorizon == StartTime + 2 * ShortCooldown

NextSettings ==
    \/ EnhancedStep("w1", StatusChanges)
    \/ TimerStep
    \/ \E choice \in SettingsChoices : ApplySettingsChanges(choice)
    \/ \E d \in SettingsTicks : Tick(d, SettingsHorizon)

SpecSettings == InitEngine /\ [][NextSettings]_vars

(* The original behaviour (enhanced_notifications off), one caller at a time *)

RateLimitTicks == {20, 40}

RateLimitHorizon == StartTime + 2 * NotificationCooldown

InitRateLimit ==
    /\ InitThreads /\ InitTracker /\ history_file = Absent /\ InitSched /\ InitChecker /\ InitLoop({})
    /\ InitNotifyWith({LegacySettings})

NextRateLimit ==
    \/ /\ ncalls < MaxNotify + 1
       /\ \E s \in Servers : \/ NotifyStatusChange("w1", s, "operational", "down")
                             \/ NotifySlowResponse("w1", s)
    \/ ShouldNotifyCheck("w1")
    \/ ShouldNotifyStore("w1")
    \/ \E d \in RateLimitTicks : Tick(d, RateLimitHorizon)

SpecRateLimit == InitRateLimit /\ [][NextRateLimit]_vars

(* The flap scenario of the notification test: alternating changes of one target *)

FlapChanges == 5

FlapTarget == "api"

\* test_notifications.py lines 153-157, i counted from 1
FlapStatus(i) == IF (i - 1) % 2 = 0 THEN "down" ELSE "operational"

FlapOld(i) == IF FlapStatus(i) = "down" THEN "operational" ELSE "down"

\* a cooldown short enough for every change of the scenario, and the default one
FlapCooldowns == {FlapWindow \div 4, DefaultCooldown}

FlapTicks == {FlapWindow \div 4}

InitFlap ==
    /\ InitThreads /\ InitTracker /\ history_file = Absent /\ InitSched /\ InitChecker /\ InitLoop({})
    /\ InitNotifyWith({[DefaultSettings EXCEPT !.alert_cooldown_seconds = c] :
                          c \in FlapCooldowns})

NextFlap ==
    \/ /\ ncalls < FlapChanges
       /\ NotifyStatusChange("w1", FlapTarget, FlapOld(ncalls + 1), FlapStatus(ncalls + 1))
    \/ IsFlapping("w1")
    \/ IsInCooldown("w1")
    \/ AcceptChange("w1")
    \/ BufferEvent("w1")
    \/ TimerStep
    \/ \E d \in FlapTicks : Tick(d, StartTime + FlapWindow)

SpecFlap == InitFlap /\ [][NextFlap]_vars

-----------------------------------------------------------------------------
(* The status store under concurrent recorders and savers *)

TrackerStep(th) ==
    \/ \E s \in Servers, in \in RecordInputs : RecordStatus(th, s, in[1], in[2])
    \/ RecordLocked(th)
    \/ RecordSave(th)
    \/ RecordReturn(th)
    \/ SaveHistory(th)
    \/ SaveLocked(th)
    \/ SaveBuild(th)
    \/ \E ok \in BOOLEAN : SaveWrite(th, ok)

Init == InitThreads /\ InitTracker /\ InitNotify /\ InitSched /\ InitChecker /\ InitLoop({})

Next ==
    \/ \E th \in Workers : TrackerStep(th)
    \/ \E d \in TrackerTicks : Tick(d, TrackerHorizon)

Spec == Init /\ [][Next]_vars

(* The status store used by one thread, and a second instance constructed  *)
(* on its file                                                              *)

NextRoundTrip ==
    \/ TrackerStep("w1")
    \/ Reload
    \/ \E d \in TrackerTicks : Tick(d, TrackerHorizon)

SpecRoundTrip == Init /\ [][NextRoundTrip]_vars

(* The construction of a StatusTracker on a history file of any content: a   *)
(* missing file, an empty or truncated one, a document of which an event, the *)
(* stats of a target or a response time lacks a part, and a complete one; the *)
(* file is then rewritten by the tracker that was constructed on it           *)

WithoutKey(d, key) == [d EXCEPT ![key] = JMissing]

NoJson(text) ==
    [exists |-> TRUE, json |-> text, events |-> <<>>, uptime_stats |-> EmptyMap,
     response_times |-> EmptyMap]

LoadFiles ==
    {Absent, NoJson("empty"), NoJson("truncated"), PriorFile}
    \cup {[PriorFile EXCEPT !.events[i] = WithoutKey(@, "status")] : i \in {1, PriorCount}}
    \cup {[PriorFile EXCEPT !.uptime_stats["api"] = WithoutKey(@, "total_checks")]}
    \cup {[PriorFile EXCEPT !.response_times["api"][i] = <<@[1]>>] : i \in {1, PriorCount}}

InitLoad ==
    /\ InitThreads /\ InitTrackerOn(LoadFiles) /\ InitNotify /\ InitSched
    /\ InitChecker /\ InitLoop({})

LoadTarget == "db"

NextLoad ==
    \/ Construct
    \/ \E in \in RecordInputs : RecordStatus("w1", LoadTarget, in[1], in[2])
    \/ RecordLocked("w1")
    \/ RecordSave("w1")
    \/ RecordReturn("w1")
    \/ SaveHistory("w1")
    \/ SaveLocked("w1")
    \/ SaveBuild("w1")
    \/ \E ok \in BOOLEAN : SaveWrite("w1", ok)

SpecLoad == InitLoad /\ [][NextLoad]_vars

(* The status store used by one recording thread and one reading thread      *)

ReadTarget == "api"

NextRead ==
    \/ RecordStatus("w1", ReadTarget, "operational", 120)
    \/ RecordLocked("w1")
    \/ RecordSave("w1")
    \/ RecordReturn("w1")
    \/ SaveHistory("w1")
    \/ SaveLocked("w1")
    \/ SaveBuild("w1")
    \/ SaveWrite("w1", TRUE)
    \/ GetUptimeStats(ReadTarget)
    \/ GetAllUptimeStats
    \/ \E s \in {"", ReadTarget} : GetRecentEvents(s)
    \/ GetResponseTimeHistory(ReadTarget)
    \/ GetStatusChanges(ReadTarget)
    \/ StatusChangesEnd

SpecRead == Init /\ [][NextRead]_vars

(* The statistics of a target whose checks come out operational, degraded or  *)
(* down, recorded by two threads                                               *)

UptimeTarget == "api"

UptimeInputs == RecordInputs \cup {<<"degraded", 900>>}

UptimeStep(th) ==
    \/ \E in \in UptimeInputs : RecordStatus(th, UptimeTarget, in[1], in[2])
    \/ RecordLocked(th)
    \/ RecordSave(th)
    \/ RecordReturn(th)
    \/ SaveLocked(th)
    \/ SaveBuild(th)
    \/ SaveWrite(th, TRUE)

NextUptime == \E th \in Workers : UptimeStep(th)

SpecUptime == Init /\ [][NextUptime]_vars

(* The cleanup of a store whose entries reach the end of the retention period *)

CleanupTarget == "api"

CleanupOffsets ==
    {0, RetentionSecs - SaveEvery \div 2, RetentionSecs - 1, RetentionSecs}

CleanupTick ==
    \E x \in CleanupOffsets : StartTime + x > now /\ Tick(StartTime + x - now, TrackerHorizon)

InitCleanup ==
    /\ InitThreads /\ InitTrackerOn({PriorFile}) /\ InitNotify /\ InitSched
    /\ InitChecker /\ InitLoop({})

NextCleanup ==
    \/ \E in \in RecordInputs : RecordStatus("w1", CleanupTarget, in[1], in[2])
    \/ RecordLocked("w1")
    \/ RecordSave("w1")
    \/ RecordReturn("w1")
    \/ SaveHistory("w1")
    \/ SaveLocked("w1")
    \/ SaveBuild("w1")
    \/ \E ok \in BOOLEAN : SaveWrite("w1", ok)
    \/ CleanupOldEvents("w1")
    \/ CleanupTick

SpecCleanup == InitCleanup /\ [][NextCleanup]_vars

(* The downtime of a target computed from the events one thread has recorded *)

DowntimeTarget == "api"

DowntimeInputs == RecordInputs \cup {<<"degraded", 900>>}

DowntimeHours == 1

\* the moments the clock is looked at: the example of the specification, and
\* moments more than the window later
DowntimeOffsets == {0, 60, 300, 3660, 3900}

DowntimeHorizon == StartTime + 3900

DowntimeTick ==
    \E x \in DowntimeOffsets : StartTime + x > now /\ Tick(StartTime + x - now, DowntimeHorizon)

InitDowntime ==
    /\ InitThreads /\ InitTrackerOn({Absent}) /\ InitNotify /\ InitSched
    /\ InitChecker /\ InitLoop({})

NextDowntime ==
    \/ \E in \in DowntimeInputs : RecordStatus("w1", DowntimeTarget, in[1], in[2])
    \/ RecordLocked("w1")
    \/ RecordReturn("w1")
    \/ CalculateDowntime("w1", DowntimeTarget, DowntimeHours)
    \/ DowntimeTick

SpecDowntime == InitDowntime /\ [][NextDowntime]_vars

(* The status store at the capacity of its buffers: it is constructed on the  *)
(* file of a long run and used by one thread                                  *)

BufferFiles ==
    {PriorFile, LongFile(EventsMaxLen - 1), LongFile(EventsMaxLen), LongFile(EventsMaxLen + 1)}

InitBuffers ==
    /\ InitThreads /\ InitTrackerOn(BufferFiles) /\ InitNotify /\ InitSched
    /\ InitChecker /\ InitLoop({})

BufferTarget == "api"

NextBuffers ==
    \/ \E in \in RecordInputs : RecordStatus("w1", BufferTarget, in[1], in[2])
    \/ RecordLocked("w1")
    \/ RecordSave("w1")
    \/ RecordReturn("w1")
    \/ SaveHistory("w1")
    \/ SaveLocked("w1")
    \/ SaveBuild("w1")
    \/ \E ok \in BOOLEAN : SaveWrite("w1", ok)
    \/ \E d \in TrackerTicks : Tick(d, TrackerHorizon)

SpecBuffers == InitBuffers /\ [][NextBuffers]_vars

-----------------------------------------------------------------------------
(* C1: in a tracker that started without persisted history, for every      *)
(* target successful_checks + failed_checks = total_checks, and             *)
(* total_checks is the number of record_status calls for the target that    *)
(* have returned plus those that have left the critical section and are     *)
(* on their way out (in the periodic save), under every interleaving of     *)
(* record_status and save_history.                                          *)

AfterCriticalSection == {"rs_unlocked", "sv_lock", "sv_build", "sv_write", "rs_saved"}

Recorded(s) ==
    completed[s] + Cardinality({th \in Workers : /\ pc[th] \in AfterCriticalSection
                                                 /\ frame[th].caller = "record"
                                                 /\ frame[th].server = s})

TotalChecks(s) == IF s \in DOMAIN uptime_stats THEN uptime_stats[s].total_checks ELSE 0

C1_ChecksAddUp ==
    /\ \A s \in DOMAIN uptime_stats :
          uptime_stats[s].successful_checks + uptime_stats[s].failed_checks
              = uptime_stats[s].total_checks
    /\ cold_start => \A s \in Servers : TotalChecks(s) = Recorded(s)

C1_Witness ==
    /\ cold_start
    /\ \E s \in DOMAIN uptime_stats :
          /\ uptime_stats[s].successful_checks = 1
          /\ uptime_stats[s].failed_checks = 1
          /\ completed[s] = 1
    /\ \E th \in Workers : pc[th] = "sv_build"

(* C5: a save_history that wrote the file, followed by the construction of  *)
(* a new StatusTracker on that file, gives the new instance the same        *)
(* UptimeStats, field by field, for every target of the saved instance.     *)

C6_SnapshotIsAtomic ==
    snap_truth.written =>
        history_file.uptime_stats
            = [s \in DOMAIN snap_truth.stats |-> StatsToDict(snap_truth.stats[s])]

(* The scheduler with its check threads, the status store and the alert groups *)

InitScheduler ==
    InitThreads /\ InitTracker /\ history_file = Absent /\ InitNotify /\ InitSched /\ InitChecker /\ InitLoop({})

CheckThread(th) ==
    \/ \E outcome \in RecordInputs : CheckReturns(th, outcome)
    \/ ProcessCheckResult(th)
    \/ RecordLocked(th)
    \/ RecordReturn(th)

NextSched ==
    \/ cycle < MaxCycles /\ NextCycle
    \/ \E slept \in CycleTimes : Sleep(slept)
    \/ StartCheck
    \/ \E th \in Workers : CheckThread(th)
    \/ \E timer \in alert_timers : SendGroupedAlert(timer)
    \/ \E name \in Servers : AcknowledgeAlert(name)

SpecSched == InitScheduler /\ [][NextSched]_vars


(* The batch monitor while the refresh button is used *)

NextRefresh ==
    \/ cycle < MaxCycles /\ NextCycle
    \/ \E slept \in CycleTimes : Sleep(slept)
    \/ StartCheck
    \/ \E th \in Workers : CheckThread(th)
    \/ \E timer \in alert_timers : SendGroupedAlert(timer)
    \/ OnRefresh

SpecRefresh == InitScheduler /\ [][NextRefresh]_vars

(* The check threads between the statements of should_send_alert: the test  *)
(* of line 1511 and the update of pending_alerts (1513-1514 or 1518-1524) are *)
(* two statements of a method that takes no lock, and the threads of the     *)
(* targets of one cycle and the GLib timeout of the main thread run between  *)
(* them.                                                                     *)

\* the result of the thread is a status change that handle_status_change takes
\* as far as the test of line 1511
ReachesGrouping(th) ==
    /\ server_status[Target(th)] # result[th][1]
    /\ server_status[Target(th)] # "checking"
    /\ ~IsServiceFlapping(ChangesAfter(sato_change_history[Target(th)], now))
    /\ ~Acknowledged(Target(th), now)

\* line 1511: `if alert_key in self.pending_alerts`
SeeAlertKey(th) ==
    /\ ResultReady(th)
    /\ ReachesGrouping(th)
    /\ spc' = [spc EXCEPT ![th] =
                  IF AlertKey(Target(th), result[th][1]) \in DOMAIN pending_alerts
                  THEN "present" ELSE "absent"]
    /\ UNCHANGED <<now, pc, frame, calls, locks, tracker_vars, outside_sched, loop_vars,
                   server_status, result, cycle, started, sato_change_history,
                   acknowledged_alerts, pending_alerts, alert_timers, alert_groups,
                   detected, submitted>>

\* lines 1513-1514 with the key gone: KeyError, caught at line 929; the call
\* returns with the status and the store as they were
GroupRaises(th) ==
    /\ spc[th] = "present"
    /\ AlertKey(Target(th), result[th][1]) \notin DOMAIN pending_alerts
    /\ spc' = [spc EXCEPT ![th] = "processed"]
    /\ sato_change_history' =
          [sato_change_history EXCEPT ![Target(th)] = ChangesAfter(@, now)]
    /\ detected' = Append(detected,
          [server |-> Target(th), old |-> server_status[Target(th)],
           new |-> result[th][1], at |-> now, flapping |-> FALSE,
           acknowledged |-> FALSE])
    /\ caught' = caught \cup {"process_check_result"}
    /\ UNCHANGED <<monitoring_active, docker_services, hosts, batch_pc, docker_results,
                   check_starts>>
    /\ UNCHANGED <<now, pc, frame, calls, locks, tracker_vars, outside_sched, server_status,
                   result, cycle, started, acknowledged_alerts, pending_alerts,
                   alert_timers, alert_groups, submitted>>

\* lines 1513-1514 or 1518-1528, and the rest of process_check_result
GroupUnderKey(th) ==
    /\ spc[th] \in {"present", "absent"}
    /\ spc[th] = "present" =>
          AlertKey(Target(th), result[th][1]) \in DOMAIN pending_alerts
    /\ ProcessResultSeen(th, result[th], spc[th] = "present")
    /\ UNCHANGED loop_vars

\* a result that does not reach line 1511
ProcessUngrouped(th) ==
    /\ ~ReachesGrouping(th)
    /\ ProcessCheckResult(th)

NextGroup ==
    \/ cycle < MaxCycles /\ NextCycle
    \/ \E slept \in CycleTimes : Sleep(slept)
    \/ StartCheck
    \/ \E th \in Workers, outcome \in RecordInputs : CheckReturns(th, outcome)
    \/ \E th \in Workers : ProcessUngrouped(th)
    \/ \E th \in Workers : SeeAlertKey(th)
    \/ \E th \in Workers : GroupUnderKey(th)
    \/ \E th \in Workers : GroupRaises(th)
    \/ \E th \in Workers : RecordLocked(th)
    \/ \E th \in Workers : RecordReturn(th)
    \/ \E timer \in alert_timers : SendGroupedAlert(timer)
    \/ \E name \in Servers : AcknowledgeAlert(name)

SpecGroup == InitScheduler /\ [][NextGroup]_vars

(* The two locks.  threading.Lock is not reentrant: a `with` statement waits *)
(* until no thread holds the lock, the thread that asks included.  Here the  *)
(* acquisition, the block and the release of every `with` statement are      *)
(* separate steps of the thread.                                             *)

ThreadOwner(th) == [thread |-> th, timer |-> 0]

TimerOwner(i) == [thread |-> "", timer |-> i]

\* the `with self._lock:` statements of record_status and save_history
StoreSites == {"rs_lock", "sv_lock"}

\* the `with self.notification_lock:` statements of the calling threads
NotificationSites == {"ns_buffer", "fs_flush"}

\* a `with` block that ends when record_status returns, the save included
WithExitAfterSave(site) ==
    CASE site = "rs_lock" -> "rs_saved"
      [] site = "sv_lock" -> "sv_build"
      [] site = "ns_buffer" -> "idle"
      [] site = "fs_flush" -> "idle"
      [] site = "running" -> "done"

\* where a thread is when it leaves the `with` block it entered at the site:
\* status_tracker.py 82-94 and 267-276, notifications.py 148-158 and 558-563
WithExit(site) ==
    CASE site = "rs_lock" -> "rs_unlocked"
      [] site = "sv_lock" -> "sv_build"
      [] site = "ns_buffer" -> "idle"
      [] site = "fs_flush" -> "idle"
      [] site = "running" -> "done"

Acquire(lock, owner, site) ==
    /\ locks[lock] = FreeLock
    /\ locks' = [locks EXCEPT ![lock] = [owner |-> owner, site |-> site]]
    /\ UNCHANGED <<now, pc, frame, calls, tracker_vars, notifier_vars, sched_vars,
                   checker_vars, optimizer_vars, exit_vars, loop_vars, heal_vars>>

Release(lock) ==
    /\ locks' = [locks EXCEPT ![lock] = FreeLock]
    /\ UNCHANGED <<now, pc, frame, calls, tracker_vars, notifier_vars, sched_vars,
                   checker_vars, optimizer_vars, exit_vars, loop_vars, heal_vars>>

\* the thread is at the end of a `with` block and has not released the lock yet
LeavingStore(th) ==
    /\ locks.store.owner = ThreadOwner(th)
    /\ pc[th] = WithExit(locks.store.site)

LeavingNotification(th) ==
    /\ locks.notification.owner = ThreadOwner(th)
    /\ npc[th] = WithExit(locks.notification.site)

MaxLockCalls == 2

MaxLockNotify == 2

\* the check thread that also reports status changes
LockNotifier == "w1"

\* the status change and the record_status call a check thread makes
LockChange == <<"operational", "down">>

\* a check thread in record_status and save_history
StoreThread(th) ==
    \/ /\ pc[th] \in StoreSites
       /\ Acquire("store", ThreadOwner(th), pc[th])
    \/ /\ locks.store = [owner |-> ThreadOwner(th), site |-> pc[th]]
       /\ RecordLocked(th) \/ SaveLocked(th)
    \/ /\ LeavingStore(th)
       /\ Release("store")
    \/ /\ ~LeavingStore(th)
       /\ \/ /\ calls < MaxLockCalls
             /\ npc[th] = "idle"
             /\ RecordStatus(th, Target(th), LockChange[2], 0)
          \/ RecordSave(th)
          \/ RecordReturn(th)
          \/ SaveBuild(th)
          \/ SaveWrite(th, TRUE)

\* a check thread in notify_status_change and force_send_pending
NotificationThread(th) ==
    \/ /\ npc[th] \in NotificationSites
       /\ Acquire("notification", ThreadOwner(th), npc[th])
    \/ /\ locks.notification = [owner |-> ThreadOwner(th), site |-> npc[th]]
       /\ BufferEvent(th) \/ ForceFlush(th)
    \/ /\ LeavingNotification(th)
       /\ Release("notification")
    \/ /\ ~LeavingNotification(th)
       /\ \/ /\ ncalls < MaxLockNotify
             /\ pc[th] = "idle"
             /\ NotifyStatusChange(th, Target(th), LockChange[1], LockChange[2])
          \/ IsFlapping(th)
          \/ IsInCooldown(th)
          \/ AcceptChange(th)
          \/ ncalls < MaxLockNotify /\ pc[th] = "idle" /\ ForceSendPending(th)

LockThread(th) ==
    \/ StoreThread(th)
    \/ th = LockNotifier /\ NotificationThread(th)

\* the thread of a threading.Timer in _send_grouped_notifications
TimerThread(i) ==
    /\ i \in DOMAIN timers
    /\ \/ TimerFire(i)
       \/ /\ timers[i].state = "running"
          /\ Acquire("notification", TimerOwner(i), "running")
       \/ /\ locks.notification = [owner |-> TimerOwner(i), site |-> "running"]
          /\ TimerFlush(i)
       \/ /\ locks.notification.owner = TimerOwner(i)
          /\ timers[i].state = WithExit(locks.notification.site)
          /\ Release("notification")

LockTicks == {BatchDelay}

LockHorizon == StartTime + BatchDelay

\* the batch delay of a waiting timer passes between two calls
LockTick(d) ==
    /\ \A th \in Workers : pc[th] = "idle" /\ npc[th] = "idle"
    /\ \E i \in DOMAIN timers : timers[i].state = "waiting"
    /\ Tick(d, LockHorizon)

InitLock ==
    /\ InitThreads /\ InitTrackerOn({PriorFile}) /\ InitNotify /\ InitSched
    /\ InitChecker /\ InitLoop({})

NextLock ==
    \/ \E th \in Workers : LockThread(th)
    \/ \E i \in 1..MaxLockNotify : TimerThread(i)
    \/ \E d \in LockTicks : LockTick(d)

\* a thread that can run does run; a lock that is free is given to a thread that
\* waits for it
SpecLock ==
    /\ InitLock /\ [][NextLock]_vars
    /\ \A th \in Workers : WF_vars(LockThread(th))
    /\ \A i \in 1..MaxLockNotify : WF_vars(TimerThread(i))

(* The interval optimizer applied to targets of every configurable interval *)

\* the interval spin button of the server dialog goes from 5 to 300
StartIntervals == {5, 10, 15, 60, 120}

TuneTarget == "api"

TunedObjects ==
    {[Configured EXCEPT ![TuneTarget].check_interval = <<i, 1>>] : i \in StartIntervals}

InitTune ==
    /\ InitThreads /\ InitTracker /\ history_file = Absent /\ InitNotify /\ InitSched
    /\ InitChecker /\ InitLoopWith({}, TunedObjects)

NextTune ==
    \/ OptimizeCheckIntervals
    \/ \E is_healthy \in BOOLEAN : CountResult(TuneTarget, is_healthy)

SpecTune == InitTune /\ [][NextTune]_vars

(* The cache of the optimizer used by the workers of its pool *)

NextCache ==
    \/ \E w \in Workers, s \in Servers : CachedHealthCheck(w, s)
    \/ \E w \in Workers : CacheRead(w)
    \/ \E w \in Workers, outcome \in RecordInputs : CheckCompletes(w, outcome)
    \/ \E w \in Workers : CleanupScan(w)
    \/ \E w \in Workers : CleanupDelete(w)
    \/ \E d \in CacheTicks : CacheTick(d)

SpecCache == InitScheduler /\ [][NextCache]_vars

(* The shutdown: the batch monitor and its check threads go on while the main *)
(* thread runs on_destroy; nothing runs once the process has ended            *)

\* the process has not ended
Running == destroy_pc # "quit"

NextShutdown ==
    \/ Running /\ cycle < MaxCycles /\ NextCycle
    \/ \E slept \in CycleTimes : Running /\ Sleep(slept)
    \/ Running /\ StartCheck
    \/ \E th \in Workers : Running /\ CheckThread(th)
    \/ OnDestroy
    \/ Running /\ SaveLocked("main")
    \/ Running /\ SaveBuild("main")
    \/ Running /\ SaveWrite("main", TRUE)
    \/ Quit

SpecShutdown == InitScheduler /\ [][NextShutdown]_vars

(* The batch monitor thread with the Docker batch, the check threads and the  *)
(* exceptions their except clauses catch.  The batch thread and the check    *)
(* threads are running threads: each takes its next step in the end (`docker *)
(* ps` has timeout=5, check_server timeout=4, the tracker lock is held for   *)
(* an in-memory update).                                                     *)

DockerConfigs == {{"db"}}

InitBatch ==
    /\ InitThreads /\ InitTracker /\ history_file = Absent /\ InitNotify /\ InitSched
    /\ InitChecker
    /\ \E docker \in DockerConfigs : InitLoop(docker)

BatchThread ==
    \/ cycle < MaxCycles /\ NextCycle
    \/ Sleep(CyclePeriod)
    \/ StartCheck
    \/ LoopRaises
    \/ \E io \in DockerOutcomes : DockerReturns(io)
    \/ ProcessDockerResult

LoopThread(th) ==
    \/ \E outcome \in RecordInputs : CheckReturns(th, outcome)
    \/ CheckRaises(th)
    \/ ProcessCheckResult(th)
    \/ ProcessRaises(th)
    \/ RecordLocked(th)
    \/ RecordReturn(th)

NextLoop ==
    \/ BatchThread
    \/ \E th \in Workers : LoopThread(th)
    \/ Destroy

SpecLoop ==
    /\ InitBatch /\ [][NextLoop]_vars
    /\ WF_vars(BatchThread)
    /\ \A th \in Workers : WF_vars(LoopThread(th))


(* Self-healing: the status changes of one target as process_check_result   *)
(* sees them (the store of the tracker left aside), the restart threads, the  *)
(* frequency resets and the maintenance switch.  Results that arrive at the   *)
(* same instant of the model stand for consecutive cycles: the windows        *)
(* involved (300 s, 3600 s, a backoff of 30 s or more) are long compared      *)
(* with a cycle.                                                              *)

MaxChanges == 4

HealTicks == {SatoFlapWindow}

HealHorizon == StartTime + 2 * SatoFlapWindow

\* the target whose status changes are followed, and the hosts it may have
HealTarget == "db"

HealHosts == {"localhost", "127.0.0.1:5432", "db.example.com", "http://localhost:5432"}

InitHealWith(dockers, target_hosts) ==
    /\ InitThreads /\ InitTracker /\ history_file = Absent /\ InitNotify /\ InitSched
    /\ InitChecker /\ InitHeal /\ InitOptimizer /\ InitExit
    /\ monitoring_active = TRUE
    /\ \E docker \in dockers, host \in target_hosts :
          /\ docker_services = docker
          /\ hosts = [s \in Servers |-> IF s = HealTarget THEN host ELSE Host(s)]
    /\ batch_pc = "idle"
    /\ docker_results = <<>>
    /\ caught = {}
    /\ check_starts = [s \in Servers |-> <<>>]

InitSelfHealing == InitHealWith({{}, {HealTarget}}, HealHosts)

\* a result for the server is processed whose status differs from the last one
StatusResult(server_name, new_status, max_changes) ==
    /\ new_status \in Statuses(server_name)
    /\ new_status # server_status[server_name]
    /\ Len(detected) < max_changes
    /\ ApplyResult(server_name, new_status)
    /\ UNCHANGED <<now, pc, frame, calls, locks, tracker_vars, notifier_vars, checker_vars,
                   optimizer_vars, exit_vars,
                   loop_vars, spc, result, cycle, started>>

\* time passes; a thread whose sleep is over runs first
HealTick(d) ==
    /\ \A i \in DOMAIN restart_threads : now < restart_threads[i].due
    /\ \A i \in DOMAIN reset_threads : now < reset_threads[i].due
    /\ Tick(d, HealHorizon)

NextHeal ==
    \/ \E status \in {"operational", "degraded", "down"} :
           StatusResult(HealTarget, status, MaxChanges)
    \/ \E i \in DOMAIN restart_threads, ok \in BOOLEAN : RestartAfterDelay(i, ok)
    \/ \E i \in DOMAIN reset_threads : ResetFrequency(i)
    \/ ToggleMaintenanceMode
    \/ \E d \in HealTicks : HealTick(d)

SpecHeal == InitSelfHealing /\ [][NextHeal]_vars

(* A local Docker service in a crash loop: after its first result it goes    *)
(* back and forth between down and degraded; maintenance mode stays off.     *)

MaxCrashes == 9

InitCrashLoop == InitHealWith({{HealTarget}}, {"localhost"})

NextCrashLoop ==
    \/ \E status \in {"operational", "degraded", "down"} :
           /\ server_status[HealTarget] # "checking" => status # "operational"
           /\ StatusResult(HealTarget, status, MaxCrashes)
    \/ \E i \in DOMAIN restart_threads, ok \in BOOLEAN : RestartAfterDelay(i, ok)
    \/ \E i \in DOMAIN reset_threads : ResetFrequency(i)
    \/ \E d \in HealTicks : HealTick(d)

SpecCrashLoop == InitCrashLoop /\ [][NextCrashLoop]_vars

(* Alert grouping and acknowledgment: the status changes of one target, the  *)
(* timers of the alert groups and acknowledge_alert called with the name of  *)
(* the target (the button of the alert dialog) or with the name of its group. *)

MaxAlerts == 4

AlertTarget == "api"

AlertTicks == {AlertGroupDelay, AckWindow - AlertGroupDelay, AckWindow}

AlertHorizon == StartTime + AckWindow + AlertGroupDelay

InitAlert == InitHealWith({{}}, {Host(HealTarget)})

\* time passes up to the next timer, or for about the hour of an acknowledgment; a
\* timer that is due fires first
AlertTick(d) ==
    /\ \A timer \in alert_timers : now < timer.due
    /\ d = AlertGroupDelay => alert_timers # {}
    /\ Tick(d, AlertHorizon)

AcknowledgeGroup(group) ==
    /\ \E s \in Servers : group = Group(s)
    /\ AcknowledgeCall(group)

NextAlert ==
    \/ \E status \in {"operational", "degraded", "down"} :
           StatusResult(AlertTarget, status, MaxAlerts)
    \/ \E timer \in alert_timers : SendGroupedAlert(timer)
    \/ AcknowledgeAlert(AlertTarget)
    \/ AcknowledgeGroup(Group(AlertTarget))
    \/ \E d \in AlertTicks : AlertTick(d)

SpecAlert == InitAlert /\ [][NextAlert]_vars

-----------------------------------------------------------------------------
(* Claims about the notification engine *)

Last(seq) == seq[Len(seq)]

AcceptedCalls == {i \in DOMAIN outcomes : outcomes[i].result = "accepted"}

\* C3: of 5 alternating changes of one target within the 10-minute window the
\* changes up to the threshold (3) are accepted and the 4th and 5th are suppressed
C3_FlapSuppressesFourthAndFifth ==
    (/\ Len(outcomes) = FlapChanges
     /\ Last(outcomes).at - outcomes[1].at < FlapWindow)
        => /\ \A i \in 1..FlapThreshold : outcomes[i].result = "accepted"
           /\ \A i \in (FlapThreshold + 1)..FlapChanges : outcomes[i].result # "accepted"

SameKey(a, b) == a.server = b.server /\ a.type = b.type

InWindowOf(i, j) ==
    /\ i < j
    /\ SameKey(answers[i], answers[j])
    /\ answers[i].answer
    /\ answers[j].at - answers[i].at < NotificationCooldown

\* C4: no should_notify request made within 60 s after a request of the same
\* target and type was answered True is answered True, and a request is refused
\* only for such a request of its own target and type
C4_OnePerWindow ==
    /\ \A i, j \in DOMAIN answers : InWindowOf(i, j) => ~answers[j].answer
    /\ \A j \in DOMAIN answers :
           ~answers[j].answer => \E i \in DOMAIN answers : InWindowOf(i, j)

\* True, then refused for the same target and type, then True for the other type
C4_Witness ==
    \E i, j, k \in DOMAIN answers :
        /\ InWindowOf(i, j) /\ ~answers[j].answer
        /\ j < k /\ answers[k].server = answers[i].server
        /\ answers[k].type # answers[i].type
        /\ answers[k].at = answers[j].at /\ answers[k].answer

BufferedIds ==
    {outcomes[i].id : i \in AcceptedCalls}
        \ {nframe[th].id : th \in {t \in Workers : npc[t] = "ns_buffer"}}

\* where the event of a call is: <<0, i>> in the buffer, <<f, i>> in the f-th flush
Places(id) ==
    {<<0, i>> : i \in {k \in DOMAIN pending_notifications :
                          pending_notifications[k].id = id}}
        \cup UNION {{<<f, i>> : i \in {k \in DOMAIN flushes[f].events :
                                          flushes[f].events[k].id = id}} :
                    f \in DOMAIN flushes}

FlushIsComing ==
    \/ batch_timer # 0 /\ timers[batch_timer].state \in {"waiting", "running"}
    \/ \E th \in Workers : npc[th] = "fs_flush"

Partitions == {"down", "operational", "degraded"}

OneMessagePerPartition(flush) ==
    \A p \in Partitions :
        LET sent == {k \in DOMAIN flush.messages : flush.messages[k].partition = p}
            group == {k \in DOMAIN flush.events : flush.events[k].new_status = p}
        IN /\ Cardinality(sent) <= 1
           /\ group # {} /\ settings.desktop_notifications
                 => \E k \in sent : flush.messages[k].count = Cardinality(group)
           /\ group = {} => sent = {}

\* C7: every buffered event is in the buffer or in exactly one flush, never in
\* both and never in two flushes; a buffer that is not empty has a flush coming;
\* a flush emits at most one message for each of down, operational, degraded
C7_ExactlyOneFlush ==
    /\ \A id \in 1..ncalls :
           Cardinality(Places(id)) = IF id \in BufferedIds THEN 1 ELSE 0
    /\ pending_notifications # <<>> => FlushIsComing
    /\ \A f \in DOMAIN flushes :
           /\ flushes[f].events # <<>>
           /\ OneMessagePerPartition(flushes[f])

\* two events of one partition left in one flush, as one message
C7_Witness ==
    /\ pending_notifications = <<>>
    /\ \E f \in DOMAIN flushes :
           /\ Len(flushes[f].events) = 2
           /\ Len(flushes[f].messages) = 1
           /\ flushes[f].messages[1].count = 2

NoOpCase(server_name, old_status, new_status) ==
    \/ old_status = new_status
    \/ old_status = "checking"
    \/ new_status = "checking"
    \/ last_meaningful_status[server_name] = new_status

\* C9: a notify_status_change call whose old and new status are equal, or one of
\* them is 'checking', or whose new status is the target's last meaningful one,
\* returns without buffering an event and leaves last_meaningful_status and
\* last_notification_time as they were
C9_NoOpLeavesTracking ==
    [][\A th \in Workers, s \in Servers, ch \in StatusChanges :
           (NotifyStatusChange(th, s, ch[1], ch[2]) /\ NoOpCase(s, ch[1], ch[2]))
               => /\ npc'[th] = "idle"
                  /\ pending_notifications' = pending_notifications
                  /\ last_meaningful_status' = last_meaningful_status
                  /\ last_notification_time' = last_notification_time]_vars

\* a call has just returned whose new status is the last meaningful one
C9_Witness ==
    /\ outcomes # <<>>
    /\ npc["w1"] = "idle"
    /\ LET o == Last(outcomes)
       IN /\ o.old # o.new /\ o.old # "checking" /\ o.new # "checking"
          /\ last_meaningful_status[o.server] = o.new
          /\ o.result # "accepted"
          /\ last_notification_time[o.server] < o.at

\* C10: two accepted notifications of one target are at least cooldown_period apart
C10_AcceptedApart ==
    \A i, j \in AcceptedCalls :
        (i < j /\ outcomes[i].server = outcomes[j].server)
            => outcomes[j].at - outcomes[i].at >= cooldown_period

PendingTimers == {i \in DOMAIN timers : timers[i].state = "waiting"}

\* C11: at most one batch timer is pending (started, not cancelled, not fired)
C11_OnePendingTimer == Cardinality(PendingTimers) <= 1

\* a second event was buffered while the timer of the first was pending
C11_Witness ==
    /\ Len(timers) = 2
    /\ timers[1].state = "cancelled"
    /\ timers[2].state = "waiting"
    /\ Len(pending_notifications) = 2

-----------------------------------------------------------------------------
(* Claims about the health checker *)

InitCheck ==
    /\ InitThreads /\ InitTracker /\ history_file = Absent /\ InitNotify /\ InitSched
    /\ InitLoop({})
    /\ probe \in PossibleProbes
    /\ answer = NoAnswer

SpecCheck == InitCheck /\ [][CheckServer]_vars

\* the outcomes of the I/O that are failures: an exception other than an HTTP
\* status, a nonzero exit code or connect_ex code, no command, no such check
FailureOutcome(p) ==
    \/ p.io.kind = "raises" /\ p.io.cls # "HTTPError"
    \/ p.io.kind = "returns" /\ p.check_type \in {"ping", "tcp", "custom"} /\ p.io.code # 0
    \/ p.check_type = "custom" /\ p.custom_command = ""
    \/ p.check_type \notin {"http", "ping", "tcp", "custom"}

-----------------------------------------------------------------------------
(* Claims about the scheduler *)

\* C2: a check thread whose own check has returned can hand its result to
\* process_check_result, and on to the status store, whatever the other threads
\* of the cycle are doing
C2_ProcessedOnReturn ==
    \A th \in Workers :
        /\ spc[th] = "returned" => ENABLED ProcessCheckResult(th)
        /\ pc[th] = "rs_lock" => ENABLED RecordLocked(th)

\* the target submitted second is in the store while the first is still checked
C2_Witness ==
    /\ cycle = 1
    /\ spc[Order[1]] = "checking"
    /\ spc[Order[2]] = "processed"
    /\ server_status[Target(Order[2])] # "checking"
    /\ TotalChecks(Target(Order[2])) = 1
    /\ TotalChecks(Target(Order[1])) = 0

Submitted(change) ==
    \E i \in DOMAIN submitted :
        /\ submitted[i].server = change.server
        /\ submitted[i].old = change.old
        /\ submitted[i].new = change.new
        /\ submitted[i].at = change.at

\* C8: every detected status change of a target that is neither flapping nor
\* acknowledged has been submitted to notify_status_change
C8_TransitionsSubmitted ==
    \A i \in DOMAIN detected :
        (~detected[i].flapping /\ ~detected[i].acknowledged) => Submitted(detected[i])

\* C13: whatever exceptions the checks, the processing of their results and the
\* loop body raise, the batch monitor starts the next cycle unless
\* monitoring_active has been set to False
C13_LoopGoesOn ==
    \A c \in 0..(MaxCycles - 1) : (cycle = c) ~> (cycle = c + 1 \/ ~monitoring_active)

\* the check of a target raised, the processing of its result raised, and the
\* next cycle has started
C13_Witness ==
    /\ caught = {"check_and_update", "process_check_result"}
    /\ cycle = MaxCycles
    /\ started = 0
    /\ monitoring_active

\* C14: two consecutive checks of a target start at least the target's
\* check_interval apart
C14_OwnCadence ==
    \A s \in Servers :
        \A i \in 1..(Len(check_starts[s]) - 1) :
            check_starts[s][i + 1] - check_starts[s][i] >= CheckInterval(s)

\* C15: while the batch thread is in the Docker enumeration of a cycle or
\* processes its results, the check of the next regular service can be started
C15_RegularNotBlocked ==
    (started < Len(Regular) /\ BatchBusy /\ CheckDone(Regular[started + 1]))
        => ENABLED StartCheck

\* C16: the results batch_docker_checks has returned and the batch thread has
\* not processed yet are those of the Docker services of the cycle, one each,
\* keyed by the index of the service
C16_ResultsOfTheBatch ==
    LET n == Len(DockerList)
        k == Len(docker_results)
    IN /\ k <= n
       /\ \A i \in 1..k : docker_results[i].index = DockerList[n - k + i]

\* C17: no more than 3 restart commands have been executed for a target since
\* its last successful restart or recovery to operational
C17_ThreeAttempts == \A s \in Servers : since_success[s] <= MaxRestartAttempts

\* C18: no restart command has been executed while maintenance mode was on
C18_NoneInMaintenance == \A i \in DOMAIN restarts : ~restarts[i].maintenance

\* C19: no restart command has been executed, and no restart thread started,
\* for a target that is_external_service classifies as external
C19_ExternalNeverRestarted ==
    /\ \A i \in DOMAIN restarts : ~IsExternalService(restarts[i].server)
    /\ \A i \in DOMAIN restart_threads : ~IsExternalService(restart_threads[i].server)

\* an external target has failed twice outside maintenance mode
C19_Witness ==
    /\ \E s \in Servers :
          /\ IsExternalService(s)
          /\ Len(failure_timestamps[s]) = 2
          /\ server_status[s] = "down"
    /\ \A i \in DOMAIN detected : ~detected[i].flapping
    /\ ~maintenance_mode

\* C20: every decision to attempt a restart was taken with fewer than 5
\* failures of the target recorded in the trailing hour
C20_FewerThanFive ==
    \A i \in DOMAIN attempts : attempts[i].recent_failures < MaxRecentFailures

\* C21: once a target has returned to operational its retry counter is 0 as
\* long as no restart attempt scheduled after that return has failed
C21_ResetUntilNextFailure ==
    \A s \in Servers : (recoveries[s] > 0 /\ ~failed_after[s]) => retry_counts[s] = 0

\* C22: when no reset of the monitoring frequency is pending any more, every
\* target is checked at its configured interval again
C22_IntervalRestored ==
    reset_threads = <<>> => \A s \in Servers : check_interval[s] = CheckInterval(s)

Listed(name) ==
    \E k \in DOMAIN pending_alerts :
        \E i \in DOMAIN pending_alerts[k].services : pending_alerts[k].services[i] = name

\* C23: right after acknowledge_alert(X) no pending alert group lists X
C23_NotListedAfterAck ==
    [][\A name \in Servers : AcknowledgeCall(name) => ~Listed(name)']_vars

AcknowledgedFor(server_name) ==
    \E name \in {server_name, Group(server_name)} :
        /\ name \in DOMAIN acknowledged_alerts
        /\ now - acknowledged_alerts[name] < AckWindow

\* C24: a status change of a target within the hour after the target or its group
\* was acknowledged leaves the pending alert groups, their timers and the
\* notifications as they are; a change outside such an hour is put into a pending
\* group unless the target is flapping
C24_SuppressedForAnHour ==
    [][\A s \in Servers :
          (server_status[s] # "checking" /\ server_status'[s] # server_status[s]) =>
              IF AcknowledgedFor(s)
              THEN /\ pending_alerts' = pending_alerts
                   /\ alert_timers' = alert_timers
                   /\ submitted' = submitted
              ELSE Last(detected').flapping \/ Listed(s)']_vars

(* Claims about the buffers of the status store *)

Appends(th) == pc[th] = "rs_lock" /\ pc'[th] = "rs_unlocked"

\* C25: the event buffer never holds more than 1000 events nor the response-time
\* buffer of a target more than 100 entries, and an append to a full buffer
\* drops its oldest entry and nothing else
C25_BuffersBounded ==
    /\ [](/\ Len(recent_events) <= EventsMaxLen
          /\ \A s \in DOMAIN response_times : Len(response_times[s]) <= ResponseMaxLen)
    /\ [][\A th \in Workers : Appends(th) =>
            /\ Len(recent_events) = EventsMaxLen =>
                   SubSeq(recent_events', 1, EventsMaxLen - 1) = Tail(recent_events)
            /\ \A s \in DOMAIN response_times :
                   (Len(response_times[s]) = ResponseMaxLen
                        /\ response_times'[s] # response_times[s]) =>
                      SubSeq(response_times'[s], 1, ResponseMaxLen - 1)
                          = Tail(response_times[s])]_vars

C25_Witness ==
    /\ Len(recent_events) = EventsMaxLen
    /\ recent_events[EventsMaxLen].timestamp = StartTime
    /\ recent_events[1].timestamp = StartTime - EventsMaxLen + 1
    /\ Len(response_times["api"]) = ResponseMaxLen
    /\ response_times["api"][ResponseMaxLen][1] = StartTime
    /\ response_times["api"][1][1] = StartTime - ResponseMaxLen + 1

RECURSIVE ChecksOf(_)
ChecksOf(names) ==
    IF names = {} THEN 0
    ELSE LET s == CHOOSE x \in names : TRUE
         IN TotalChecks(s) + ChecksOf(names \ {s})

\* the number of events recorded so far
EverRecorded == ChecksOf(Servers)

\* C26: record_status decides to save exactly when the number of events recorded
\* so far, the new one included, is a multiple of 10
C26_SaveEveryTenth ==
    [][\A th \in Workers : Appends(th) =>
          (frame'[th].should_save <=> EverRecorded' % SaveEvery = 0)]_vars

\* what the caller of an accessor holds now
Current(h) ==
    IF ~h.live THEN h.value
    ELSE IF h.accessor = "get_uptime_stats" THEN uptime_stats[h.server]
    ELSE [s \in DOMAIN h.value |-> uptime_stats[s]]

\* C27: no read accessor has raised, and every value an accessor has returned is
\* still the value it was when it was returned
C27_ReadersHoldCopies ==
    /\ read_errors = <<>>
    /\ \A i \in DOMAIN held : Current(held[i]) = held[i].value

\* C28: the construction of a StatusTracker raises nothing, and on a file that
\* cannot be loaded completely the new store has no events, no uptime stats and
\* no response times
C28_EmptyUnlessLoaded ==
    fresh.loaded =>
        /\ fresh.raised = ""
        /\ ~fresh.complete =>
              fresh.events = <<>> /\ fresh.stats = EmptyMap /\ fresh.response_times = EmptyMap

\* C29: when on_destroy has ended the process, the event of every check that was
\* in flight when on_destroy began and has been recorded is in the history file
C29_InFlightPersisted ==
    destroy_pc = "quit" =>
        \A s \in Servers :
            (in_flight[s] > 0 /\ EventsFor(recent_events, s) >= in_flight[s]) =>
                EventsFor(load_history(history_file).recent_events, s) >= in_flight[s]

\* C30: of the requests for one target made within cache_ttl of one another at
\* most one has run check_server, and a request answered from the cache got the
\* result of the probe of such a request
C30_OneProbePerTtl ==
    /\ \A i, j \in DOMAIN probe_log :
          (i < j /\ probe_log[i].server = probe_log[j].server) =>
              \/ probe_log[j].requested - probe_log[i].requested >= CacheTtl
              \/ probe_log[i].requested - probe_log[j].requested >= CacheTtl
    /\ \A a \in DOMAIN cache_answers :
          cache_answers[a].cached =>
              \E i \in DOMAIN probe_log :
                  /\ probe_log[i].server = cache_answers[a].server
                  /\ probe_log[i].result = cache_answers[a].result
                  /\ cache_answers[a].at - probe_log[i].requested < CacheTtl

\* C31: a _cached_health_check call whose check_server returned a result
\* returns that result: no call that has probed ends with an exception raised
\* by a concurrent change of the cache
C31_CacheNeverFails ==
    \A a \in DOMAIN cache_answers :
        (~cache_answers[a].cached /\ cache_answers[a].result # <<"", 0>>)
            => cache_answers[a].error = ""

\* C32: every cooldown decision is taken with the alert_cooldown_seconds of the
\* settings the manager holds at that moment: the change is suppressed exactly
\* when the last notification of the target is less than that many seconds old
C32_SettingsTakeEffect ==
    [][\A th \in Workers :
          (npc[th] = "ns_cooldown" /\ npc'[th] # "ns_cooldown") =>
              (npc'[th] = "idle" <=>
                  now - last_notification_time[nframe[th].server]
                      < settings.alert_cooldown_seconds)]_vars

\* C33: an optimize_check_intervals call does not lower the interval of a
\* target with more than 10 consecutive successes and does not raise the
\* interval of a target with fewer than 3; an interval it has relaxed is at most
\* 60 s and one it has tightened at least 10 s
C33_IntervalsOptimized ==
    [][optimize_calls' # optimize_calls =>
          \A s \in Servers :
              LET before == tuned_servers[s]
                  after == tuned_servers'[s]
              IN before.has_counter =>
                    /\ before.consecutive_success > StableStreak =>
                          /\ ~RatLess(after.check_interval, before.check_interval)
                          /\ ~RatLess(<<RelaxedLimit, 1>>, after.check_interval)
                    /\ before.consecutive_success < UnstableStreak =>
                          /\ ~RatLess(before.check_interval, after.check_interval)
                          /\ ~RatLess(after.check_interval, <<TightenedLimit, 1>>)]_vars

\* the events of a target inside the window, oldest first
InWindow(d) ==
    LET Wanted(e) == e.server_name = d.server /\ e.timestamp >= d.at - d.hours * 3600
    IN EventsByTime(SelectSeq(d.events, Wanted), FALSE)

\* the events at which the target goes down or degraded: the first event of
\* the window or the event after an operational one
Outages(evs) ==
    {i \in DOMAIN evs : /\ evs[i].status \in {"down", "degraded"}
                        /\ (i = 1 \/ evs[i - 1].status = "operational")}

\* the next transition to operational, or the time of the call
OutageEnd(evs, i, current_time) ==
    LET later == {j \in DOMAIN evs : j > i /\ evs[j].status = "operational"}
    IN IF later = {} THEN current_time
       ELSE evs[CHOOSE j \in later : \A k \in later : j <= k].timestamp

RECURSIVE OutageSeconds(_, _, _)
OutageSeconds(evs, outages, current_time) ==
    IF outages = {} THEN 0
    ELSE LET i == CHOOSE x \in outages : TRUE
         IN OutageEnd(evs, i, current_time) - evs[i].timestamp
                + OutageSeconds(evs, outages \ {i}, current_time)

ExampleStatuses == <<"operational", "down", "operational">>

ExampleOffsets == <<0, 60, 300>>

IsExample(evs) ==
    /\ Len(evs) = 3
    /\ \A i \in 1..3 : /\ evs[i].status = ExampleStatuses[i]
                       /\ evs[i].timestamp = evs[1].timestamp + ExampleOffsets[i]

\* C34: what calculate_downtime returned is the sum, in minutes, of the periods
\* from an event at which the target went down or degraded to its next
\* operational event, or to the time of the call; it is not negative and not
\* more than the window; the example operational, down 60 s later, operational
\* 300 s after the first gives 4 minutes
C34_Downtime ==
    downtime.server # "" =>
        LET evs == InWindow(downtime)
            seconds == OutageSeconds(evs, Outages(evs), downtime.at)
        IN /\ downtime.minutes = Rat(seconds, 60)
           /\ ~RatLess(downtime.minutes, Zero)
           /\ ~RatLess(<<downtime.hours * 60, 1>>, downtime.minutes)
           /\ IsExample(evs) => downtime.minutes = <<4, 1>>

C34_Witness ==
    /\ downtime.server = DowntimeTarget
    /\ IsExample(InWindow(downtime))
    /\ downtime.minutes = <<4, 1>>

\* the probe got an HTTP status: urlopen returned a response or raised HTTPError
GotStatus(p) ==
    p.check_type = "http" /\ (p.io.kind = "returns" \/ p.io.cls = "HTTPError")

\* C35: the result of check_http for a received status is healthy exactly when
\* the status code is an expected one and, for a target with expected_content,
\* the content was found in the first 200 bytes of the body; the result for a
\* status code that is not expected is unhealthy and its message is the HTTP
\* status
C35_HttpHealthy ==
    (answer # NoAnswer /\ GotStatus(probe)) =>
        /\ answer.state = "result"
        /\ answer.is_healthy <=>
              /\ probe.io.code \in ExpectedStatusCodes
              /\ probe.content # "" => probe.content = "found"
        /\ probe.io.code \notin ExpectedStatusCodes =>
              /\ ~answer.is_healthy
              /\ answer.status_code = probe.io.code
              /\ answer.message = "HTTP " \o ToString(probe.io.code)

\* the events that are not older than the retention period
RetainedEvents(events, current_time) ==
    LET Keep(e) == e.timestamp >= current_time - RetentionSecs
    IN SelectSeq(events, Keep)

\* the (time, response time) pairs that are not older than the retention period
RetainedPairs(pairs, current_time) ==
    LET Keep(pair) == pair[1] >= current_time - RetentionSecs
    IN SelectSeq(pairs, Keep)

\* C36: a cleanup_old_events call, made on its own or by save_history, leaves
\* in the event buffer and in every response-time buffer exactly the entries
\* that are not older than the retention period, and a second call at the same
\* time leaves both as they are
C36_CleanupIdempotent ==
    [][(\E th \in Workers : CleanupOldEvents(th) \/ SaveLocked(th)) =>
          /\ recent_events' = RetainedEvents(recent_events, now)
          /\ DOMAIN response_times' = DOMAIN response_times
          /\ \A s \in DOMAIN response_times :
                response_times'[s] = RetainedPairs(response_times[s], now)
          /\ CleanEvents(recent_events', now') = recent_events'
          /\ CleanTimes(response_times', now') = response_times']_vars

\* a cleanup happened when the oldest events had passed the retention period and
\* one event was exactly that old: it alone is left
C36_Witness ==
    /\ now = StartTime + RetentionSecs - 1
    /\ calls = 0
    /\ Len(recent_events) = 1
    /\ recent_events[1].timestamp = StartTime - 1

\* C37: the uptime_percentage of every target is 100 * successful_checks /
\* total_checks and lies between 0 and 100, and a record_status call adds one to
\* successful_checks when the status is operational and one to failed_checks
\* when it is degraded or down
C37_UptimePercentage ==
    /\ [](\A s \in DOMAIN uptime_stats :
             LET stats == uptime_stats[s]
             IN /\ stats.total_checks > 0
                /\ stats.uptime_percentage
                      = Rat(100 * stats.successful_checks, stats.total_checks)
                /\ ~RatLess(stats.uptime_percentage, Zero)
                /\ ~RatLess(<<100, 1>>, stats.uptime_percentage))
    /\ [][\A th \in Workers : Appends(th) =>
            LET s == frame[th].server
                succ == IF s \in DOMAIN uptime_stats
                        THEN uptime_stats[s].successful_checks ELSE 0
                fail == IF s \in DOMAIN uptime_stats
                        THEN uptime_stats[s].failed_checks ELSE 0
            IN IF frame[th].status = "operational"
               THEN /\ uptime_stats'[s].successful_checks = succ + 1
                    /\ uptime_stats'[s].failed_checks = fail
               ELSE /\ uptime_stats'[s].successful_checks = succ
                    /\ uptime_stats'[s].failed_checks = fail + 1]_vars

\* a target with successful and failed checks whose last check was degraded
C37_Witness ==
    /\ UptimeTarget \in DOMAIN uptime_stats
    /\ uptime_stats[UptimeTarget].last_status = "degraded"
    /\ uptime_stats[UptimeTarget].successful_checks > 0
    /\ uptime_stats[UptimeTarget].failed_checks > 1
    /\ RatLess(Zero, uptime_stats[UptimeTarget].uptime_percentage)
    /\ RatLess(uptime_stats[UptimeTarget].uptime_percentage, <<100, 1>>)

\* the check thread hands its result to process_check_result
Processes(th) == spc[th] = "returned" /\ spc'[th] = "processed"

\* C38: when the status of a result differs from the status of the previous
\* result of the target (the one the tracker recorded last), the transition from
\* the one to the other is handled, whatever the displayed status is; no
\* handled transition has 'checking' as its old or new status
C38_EveryTransitionHandled ==
    /\ [][\A th \in Workers :
            (/\ Processes(th)
             /\ Target(th) \in DOMAIN uptime_stats
             /\ uptime_stats[Target(th)].last_status # result[th][1]) =>
                /\ Len(detected') = Len(detected) + 1
                /\ Last(detected').server = Target(th)
                /\ Last(detected').old = uptime_stats[Target(th)].last_status
                /\ Last(detected').new = result[th][1]]_vars
    /\ [](\A i \in DOMAIN detected :
             detected[i].old # "checking" /\ detected[i].new # "checking")

\* C39: every target whose status change was grouped under an alert key and that
\* was not acknowledged since is in the services of the pending group of that key
\* or of the grouped alert dispatched for it, and a pending group leaves
\* pending_alerts only as the one grouped alert dispatched for it or when an
\* acknowledgment has emptied it, whatever the interleaving of the check threads
C39_GroupedTargetsAlerted ==
    /\ [](\A i \in DOMAIN detected :
            LET change == detected[i]
                alert_key == AlertKey(change.server, change.new)
                Names(groups) ==
                    /\ alert_key \in DOMAIN groups
                    /\ groups[alert_key].last_update >= change.at
                    /\ \E k \in DOMAIN groups[alert_key].services :
                           groups[alert_key].services[k] = change.server
                acked == /\ change.server \in DOMAIN acknowledged_alerts
                         /\ acknowledged_alerts[change.server] >= change.at
            IN (~change.flapping /\ ~change.acknowledged /\ ~acked) =>
                   Names(pending_alerts) \/ Names(alert_groups))
    /\ [][\A alert_key \in DOMAIN pending_alerts \ DOMAIN pending_alerts' :
             \/ acknowledged_alerts' # acknowledged_alerts
             \/ /\ alert_key \in DOMAIN alert_groups'
                /\ alert_groups'[alert_key] = pending_alerts[alert_key]]_vars

\* no record_status, save_history, notify_status_change, force_send_pending or
\* timer flush is under way and both locks are free
LocksQuiet ==
    /\ \A th \in Workers : pc[th] = "idle" /\ npc[th] = "idle"
    /\ \A i \in DOMAIN timers : timers[i].state # "running"
    /\ locks.store = FreeLock
    /\ locks.notification = FreeLock

\* C40: no thread asks for the lock of the status store or for the lock of the
\* notification manager while it holds that lock, and every record_status,
\* save_history, notify_status_change and flush that has started returns with
\* the lock released: whatever is under way, a moment comes when nothing is
C40_NoThreadBlocksForever ==
    /\ [](\A th \in Workers :
            /\ (pc[th] \in StoreSites /\ locks.store.owner = ThreadOwner(th)) =>
                   locks.store.site = pc[th]
            /\ (npc[th] \in NotificationSites
                    /\ locks.notification.owner = ThreadOwner(th)) =>
                   locks.notification.site = npc[th])
    /\ []<>LocksQuiet

\* a record_status call is about to save and asks for the lock of the store,
\* which the other check thread holds
C40_Witness ==
    /\ pc["w1"] = "sv_lock"
    /\ frame["w1"].caller = "record"
    /\ locks.store.owner = ThreadOwner("w2")

====
